---- MODULE Spec2Model ----
(***************************************************************************)
(* HistFactory models of the pyhf tutorial notebooks: the declarative      *)
(* specifications the notebooks build, the model (parameter registry,      *)
(* auxiliary data, expected data) pyhf derives from them, and the          *)
(* evaluation calls the notebooks make on a built model.                   *)
(*                                                                         *)
(* Numbers are exact rationals <<n, d>> (d > 0, lowest terms).  Absolute   *)
(* uncertainties (shapesys / staterror data, widths) are carried as their  *)
(* squares, because np.sqrt(hist) is irrational: a non-negative real is    *)
(* identified by its square.                                               *)
(***************************************************************************)
EXTENDS Integers, Sequences, FiniteSets, TLC

VARIABLES spec, config, parameters, actualdata, auxexpected, interp,
          observed, out, workers, hypo, tables, widgets

vars == <<spec, config, parameters, actualdata, auxexpected, interp,
          observed, out, workers, hypo, tables, widgets>>

(***************************************************************************)
(* Exact rational arithmetic.                                              *)
(***************************************************************************)
Abs(x) == IF x < 0 THEN -x ELSE x

RECURSIVE GCD(_, _)
GCD(a, b) == IF b = 0 THEN a ELSE GCD(b, a % b)

\* the rational n/d in lowest terms with a positive denominator (d # 0)
Q(n, d) ==
    LET g == GCD(Abs(n), Abs(d))
        s == IF d < 0 THEN -1 ELSE 1
    IN  <<(s * n) \div g, (s * d) \div g>>

QInt(n) == <<n, 1>>
QAdd(a, b) == Q(a[1] * b[2] + b[1] * a[2], a[2] * b[2])
QSub(a, b) == Q(a[1] * b[2] - b[1] * a[2], a[2] * b[2])
QMul(a, b) == Q(a[1] * b[1], a[2] * b[2])
QDiv(a, b) == Q(a[1] * b[2], a[2] * b[1])
QLe(a, b) == a[1] * b[2] <= b[1] * a[2]
QLt(a, b) == a[1] * b[2] < b[1] * a[2]

RECURSIVE QPow(_, _)
QPow(a, k) == IF k = 0 THEN QInt(1) ELSE QMul(a, QPow(a, k - 1))

\* element-wise helpers on sequences of rationals
VAdd(u, v) == [b \in 1..Len(u) |-> QAdd(u[b], v[b])]
VScale(c, u) == [b \in 1..Len(u) |-> QMul(c, u[b])]
VSquare(u) == [b \in 1..Len(u) |-> QMul(u[b], u[b])]

RECURSIVE Concat(_)
Concat(ss) == IF ss = <<>> THEN <<>> ELSE Head(ss) \o Concat(Tail(ss))

RECURSIVE QSum(_)
QSum(u) == IF u = <<>> THEN QInt(0) ELSE QAdd(Head(u), QSum(Tail(u)))

RECURSIVE QProd(_)
QProd(u) == IF u = <<>> THEN QInt(1) ELSE QMul(Head(u), QProd(Tail(u)))

(***************************************************************************)
(* The histograms of the histogram-fit notebook (values in hundredths).    *)
(***************************************************************************)
Dec(n) == Q(n, 100)
DecVec(u) == [b \in 1..Len(u) |-> Dec(u[b])]

hist1 == DecVec(<<150, 300, 600, 750, 630, 660, 600, 450, 300, 150>>)
hist2 == DecVec(<<300, 600, 900, 1200, 1500, 900, 600, 300, 30, 15>>)
data == DecVec(<<400, 1700, 2600, 2300, 3400, 2300, 2100, 700, 800, 400>>)
hist1_uncorr_err == DecVec(<<40, 40, 30, 20, 15, 40, 45, 50, 30, 35>>)

\* list(u) for an array u of absolute uncertainties: stored as squares
AbsUnc(u) == VSquare(u)
\* list(np.sqrt(h)): the uncertainty whose square is h
NpSqrt(h) == h

(***************************************************************************)
(* Modifier, sample and channel declarations.                              *)
(***************************************************************************)
NormFactor(name) ==
    [name |-> name, type |-> "normfactor", data |-> <<>>, lo |-> <<>>, hi |-> <<>>]
ShapeSys(name, unc2) ==
    [name |-> name, type |-> "shapesys", data |-> unc2, lo |-> <<>>, hi |-> <<>>]
StatError(name, unc2) ==
    [name |-> name, type |-> "staterror", data |-> unc2, lo |-> <<>>, hi |-> <<>>]
HistoSys(name, lo_data, hi_data) ==
    [name |-> name, type |-> "histosys", data |-> <<>>, lo |-> lo_data, hi |-> hi_data]
NormSys(name, lo, hi) ==
    [name |-> name, type |-> "normsys", data |-> <<>>, lo |-> <<lo>>, hi |-> <<hi>>]

Sample(name, yields, modifiers) ==
    [name |-> name, data |-> yields, modifiers |-> modifiers]
Channel(name, samples) == [name |-> name, samples |-> samples]

\* two samples, one normfactor each
SpecTwoNorm ==
    <<Channel("singlechannel",
        <<Sample("sample1", hist1, <<NormFactor("mu1")>>),
          Sample("sample2", hist2, <<NormFactor("mu2")>>)>>)>>

\* one sample, normfactor + shapesys
SpecUncorr ==
    <<Channel("singlechannel",
        <<Sample("sample1", hist1,
            <<NormFactor("mu1"),
              ShapeSys("uncorrelated_uncertainties", AbsUnc(hist1_uncorr_err))>>)>>)>>

\* two samples, normfactor + same-named staterror each
SpecStat ==
    <<Channel("singlechannel",
        <<Sample("sample1", hist1,
            <<NormFactor("mu1"), StatError("statistical_error", NpSqrt(hist1))>>),
          Sample("sample2", hist2,
            <<NormFactor("mu2"), StatError("statistical_error", NpSqrt(hist2))>>)>>)>>

\* one sample, normfactor + histosys
SpecCorr ==
    <<Channel("singlechannel",
        <<Sample("sample1", VAdd(hist1, VScale(Q(1, 2), hist2)),
            <<NormFactor("mu1"),
              HistoSys("alpha", hist1, VAdd(hist1, hist2))>>)>>)>>

\* the cut-and-count experiment of the hypothesis-test notebook
s_events == 7
b_events == 5
delta_b == 2

\* variant: the signal and background yields exchanged
uncorrelated_background_swapped(signal, bkg, bkg_uncertainty) ==
    <<Channel("singlechannel",
        <<Sample("signal", bkg, <<NormFactor("mu")>>),
          Sample("background", signal,
            <<ShapeSys("uncorr_bkguncrt", AbsUnc(bkg_uncertainty))>>)>>)>>

\* pyhf.simplemodels.uncorrelated_background(signal, bkg, bkg_uncertainty)
uncorrelated_background(signal, bkg, bkg_uncertainty) ==
    <<Channel("singlechannel",
        <<Sample("signal", signal, <<NormFactor("mu")>>),
          Sample("background", bkg,
            <<ShapeSys("uncorr_bkguncrt", AbsUnc(bkg_uncertainty))>>)>>)>>

SpecCutCount ==
    uncorrelated_background(<<QInt(s_events)>>, <<QInt(b_events)>>, <<QInt(delta_b)>>)

NotebookSpecs == {SpecTwoNorm, SpecUncorr, SpecStat, SpecCorr, SpecCutCount}

\* further single-bin cut-and-count models
CutCountSignals == {1, 3, s_events}
CutCountBackgrounds == {2, b_events}
CutCountUncertainties == {1, delta_b}

CutCountSpecs ==
    {uncorrelated_background(<<QInt(sg)>>, <<QInt(bk)>>, <<QInt(un)>>) :
        sg \in CutCountSignals, bk \in CutCountBackgrounds, un \in CutCountUncertainties}

(***************************************************************************)
(* A bounded family of further specifications: 1..MaxChannels consecutive  *)
(* channel templates taken from the cycle below.                           *)
(***************************************************************************)
MaxChannels == 2

ChannelNames == <<"ch1", "ch2", "ch3", "ch4">>
UncorrNames == <<"uncorr_1", "uncorr_2", "uncorr_3", "uncorr_4">>
\* number of bins of the channel at each position
ChannelBins == <<2, 1, 1, 2>>

\* positive yields of sample k of channel c
YieldPool == <<2, 4, 3, 5, 1>>
Yields(c, k, nb) == [i \in 1..nb |-> QInt(YieldPool[((2 * c + 3 * k + i) % 5) + 1])]
Ones(nb) == [i \in 1..nb |-> QInt(1)]

TemplateCycle == <<"staterror", "staterror", "shapesys", "statsingle", "histosys",
                   "normplusshape", "mixed", "cutcount", "twonorm", "norm">>

TemplateSamples(t, c, nb) ==
    LET y1 == Yields(c, 1, nb)
        y2 == Yields(c, 2, nb)
    IN CASE t = "norm" ->
            <<Sample("sample1", y1, <<NormFactor("mu")>>)>>
         [] t = "twonorm" ->
            <<Sample("sample1", y1, <<NormFactor("mu1")>>),
              Sample("sample2", y2, <<NormFactor("mu2")>>)>>
         [] t = "shapesys" ->
            <<Sample("sample1", y1,
                <<NormFactor("mu"),
                  ShapeSys(UncorrNames[c], AbsUnc(VScale(Q(1, 2), Ones(nb))))>>)>>
         [] t = "staterror" ->
            <<Sample("sample1", y1,
                <<NormFactor("mu1"), StatError("statistical_error", NpSqrt(y1))>>),
              Sample("sample2", y2,
                <<NormFactor("mu2"), StatError("statistical_error", NpSqrt(y2))>>)>>
         [] t = "statsingle" ->
            <<Sample("sample1", y1,
                <<NormFactor("mu1"), StatError("stat_single", AbsUnc(Ones(nb)))>>),
              Sample("sample2", y2, <<NormFactor("mu2")>>)>>
         [] t = "histosys" ->
            <<Sample("sample1", y1,
                <<NormFactor("mu"),
                  HistoSys("alpha", VAdd(y1, VScale(QInt(-1), Ones(nb))),
                                    VAdd(y1, VScale(QInt(2), Ones(nb))))>>)>>
         [] t = "normplusshape" ->
            \* the "lo" reference is larger than the "hi" one
            <<Sample("sample1", y1,
                <<HistoSys("alpha", VAdd(y1, Ones(nb)),
                                    VAdd(y1, VScale(QInt(-1), Ones(nb)))),
                  NormSys("alpha", Q(11, 10), Q(9, 10))>>)>>
         [] t = "cutcount" ->
            <<Sample("background", y2, <<ShapeSys(UncorrNames[c], AbsUnc(Ones(nb)))>>),
              Sample("signal", y1, <<NormFactor("mu")>>)>>
         [] t = "mixed" ->
            <<Sample("sample1", y1,
                <<NormFactor("mu1"), ShapeSys(UncorrNames[c], AbsUnc(y1))>>),
              Sample("sample2", y2,
                <<HistoSys("alpha", VScale(Q(3, 2), y2), VScale(Q(1, 2), y2)),
                  NormSys("sys", Q(4, 5), Q(3, 2))>>)>>

GeneratedSpec(ts) ==
    [c \in 1..Len(ts) |->
        Channel(ChannelNames[c], TemplateSamples(ts[c], c, ChannelBins[c]))]

\* the n templates that follow position start of the cycle
Window(start, n) ==
    [c \in 1..n |-> TemplateCycle[((start + c - 2) % Len(TemplateCycle)) + 1]]

TemplateSeqs == {Window(start, n) : start \in 1..Len(TemplateCycle), n \in 1..MaxChannels}

GeneratedSpecs == {GeneratedSpec(ts) : ts \in TemplateSeqs}

(***************************************************************************)
(* pyhf.Model(spec): the parameter registry.                               *)
(***************************************************************************)
\* the modifier kinds, in the order pyhf collects their parameter sets
ModifierTypes == <<"histosys", "normfactor", "normsys", "shapesys", "staterror">>

\* every parameter name used by the specifications, in sorted order
AllParNames ==
    <<"alpha", "mu", "mu1", "mu2", "stat_single", "statistical_error", "sys",
      "uncorr_1", "uncorr_2", "uncorr_3", "uncorr_4", "uncorr_bkguncrt",
      "uncorrelated_uncertainties">>

Bins(ch) == Len(ch.samples[1].data)

\* the modifiers of a sample that carry this name and type
ModIndices(sam, name, type) ==
    {m \in 1..Len(sam.modifiers) :
        sam.modifiers[m].name = name /\ sam.modifiers[m].type = type}
Declares(sam, name, type) == ModIndices(sam, name, type) # {}
TheModifier(sam, name, type) ==
    sam.modifiers[CHOOSE m \in ModIndices(sam, name, type) : TRUE]

ChannelDeclares(ch, name, type) ==
    \E k \in 1..Len(ch.samples) : Declares(ch.samples[k], name, type)
SpecDeclares(sp, name, type) ==
    \E c \in 1..Len(sp) : ChannelDeclares(sp[c], name, type)

NamesOfType(sp, type) ==
    SelectSeq(AllParNames, LAMBDA n : SpecDeclares(sp, n, type))

RECURSIVE Dedup(_)
Dedup(names) ==
    IF names = <<>> THEN <<>>
    ELSE LET rest == Dedup(SubSeq(names, 1, Len(names) - 1))
             last == names[Len(names)]
         IN  IF \E i \in 1..Len(rest) : rest[i] = last THEN rest
             ELSE Append(rest, last)

\* variant: one entry per (kind, name), names not deduplicated
ParOrderPerModifier(sp) ==
    Concat([i \in 1..Len(ModifierTypes) |-> NamesOfType(sp, ModifierTypes[i])])

\* config.par_order: one entry per distinct name
ParOrder(sp) ==
    Dedup(Concat([i \in 1..Len(ModifierTypes) |-> NamesOfType(sp, ModifierTypes[i])]))

\* the kind whose builder registers the name first
FirstType(sp, name) ==
    ModifierTypes[CHOOSE i \in 1..Len(ModifierTypes) :
        /\ SpecDeclares(sp, name, ModifierTypes[i])
        /\ \A j \in 1..(i - 1) : ~SpecDeclares(sp, name, ModifierTypes[j])]

\* variant: a single factor for the whole histogram
ShapeSysFactorsScalar(sp, name) ==
    LET c == CHOOSE c \in 1..Len(sp) : ChannelDeclares(sp[c], name, "shapesys")
        k == CHOOSE k \in 1..Len(sp[c].samples) :
                 Declares(sp[c].samples[k], name, "shapesys")
        sam == sp[c].samples[k]
        unc2 == TheModifier(sam, name, "shapesys").data
    IN  <<QDiv(QMul(sam.data[1], sam.data[1]), unc2[1])>>

\* variant: nominal / uncertainty^2, the nominal yield not squared
ShapeSysFactorsLinear(sp, name) ==
    LET c == CHOOSE c \in 1..Len(sp) : ChannelDeclares(sp[c], name, "shapesys")
        k == CHOOSE k \in 1..Len(sp[c].samples) :
                 Declares(sp[c].samples[k], name, "shapesys")
        sam == sp[c].samples[k]
        unc2 == TheModifier(sam, name, "shapesys").data
    IN  [i \in 1..Len(sam.data) |-> QDiv(sam.data[i], unc2[i])]

\* shapesys: effective counts (nominal / uncertainty)^2 of the declaring sample
ShapeSysFactors(sp, name) ==
    LET c == CHOOSE c \in 1..Len(sp) : ChannelDeclares(sp[c], name, "shapesys")
        k == CHOOSE k \in 1..Len(sp[c].samples) :
                 Declares(sp[c].samples[k], name, "shapesys")
        sam == sp[c].samples[k]
        unc2 == TheModifier(sam, name, "shapesys").data
    IN  [i \in 1..Len(sam.data) |-> QDiv(QMul(sam.data[i], sam.data[i]), unc2[i])]

\* variant: the relative uncertainties of the samples summed in quadrature
StatErrorSigma2Relative(ch, name, i) ==
    LET declaring == SelectSeq(ch.samples, LAMBDA sam : Declares(sam, name, "staterror"))
    IN  QSum([k \in 1..Len(declaring) |->
            QDiv(TheModifier(declaring[k], name, "staterror").data[i],
                 QMul(declaring[k].data[i], declaring[k].data[i]))])

\* staterror: square of the relative width of bin i of channel ch,
\* (sum over declaring samples of delta^2) / (sum over declaring samples of yield)^2
StatErrorSigma2(ch, name, i) ==
    LET declaring == SelectSeq(ch.samples, LAMBDA sam : Declares(sam, name, "staterror"))
        unc2 == [k \in 1..Len(declaring) |->
                    TheModifier(declaring[k], name, "staterror").data[i]]
        noms == [k \in 1..Len(declaring) |-> declaring[k].data[i]]
        nomsall == QSum(noms)
    IN  QDiv(QSum(unc2), QMul(nomsall, nomsall))

StatErrorSigmas2(sp, name) ==
    Concat([c \in 1..Len(sp) |->
        IF ChannelDeclares(sp[c], name, "staterror")
        THEN [i \in 1..Bins(sp[c]) |-> StatErrorSigma2(sp[c], name, i)]
        ELSE <<>>])

Repeat(v, n) == [i \in 1..n |-> v]

\* a bound m * 10^e
Sci(m, e) == [mant |-> m, exp |-> e]

\* variant: the bounds of a constrained gamma for every kind
SuggestedBoundsOfGamma(type) == <<Sci(1, -10), Sci(1, 1)>>

\* the default (lower, upper) bounds of one parameter of a modifier kind
SuggestedBoundsOf(type) ==
    CASE type = "normfactor" -> <<Sci(0, 0), Sci(1, 1)>>
      [] type \in {"shapesys", "staterror"} -> <<Sci(1, -10), Sci(1, 1)>>
      [] OTHER -> <<Sci(-5, 0), Sci(5, 0)>>

\* the parameter set a name requires
RequiredParset(sp, name) ==
    LET type == FirstType(sp, name)
    IN CASE type = "normfactor" ->
            [name |-> name, paramset_type |-> "unconstrained", n_parameters |-> 1,
             inits |-> <<QInt(1)>>, auxdata |-> <<>>, factors |-> <<>>,
             sigmas2 |-> <<>>, bounds |-> <<SuggestedBoundsOf(type)>>]
         [] type = "shapesys" ->
            LET factors == ShapeSysFactors(sp, name)
            IN [name |-> name, paramset_type |-> "constrained_by_poisson",
                n_parameters |-> Len(factors), inits |-> Repeat(QInt(1), Len(factors)),
                auxdata |-> factors, factors |-> factors, sigmas2 |-> <<>>,
                bounds |-> Repeat(SuggestedBoundsOf(type), Len(factors))]
         [] type = "staterror" ->
            LET sigmas2 == StatErrorSigmas2(sp, name)
            IN [name |-> name, paramset_type |-> "constrained_by_normal",
                n_parameters |-> Len(sigmas2), inits |-> Repeat(QInt(1), Len(sigmas2)),
                auxdata |-> Repeat(QInt(1), Len(sigmas2)), factors |-> <<>>,
                sigmas2 |-> sigmas2,
                bounds |-> Repeat(SuggestedBoundsOf(type), Len(sigmas2))]
         [] OTHER ->
            \* histosys and normsys: one shared alpha, standard normal constraint
            [name |-> name, paramset_type |-> "constrained_by_normal", n_parameters |-> 1,
             inits |-> <<QInt(0)>>, auxdata |-> <<QInt(0)>>, factors |-> <<>>,
             sigmas2 |-> <<QInt(1)>>, bounds |-> <<SuggestedBoundsOf(type)>>]

\* the parameter sets in canonical order
Paramsets(sp) ==
    LET order == ParOrder(sp)
    IN  [i \in 1..Len(order) |-> RequiredParset(sp, order[i])]

RECURSIVE TotalParameters(_)
TotalParameters(psets) ==
    IF psets = <<>> THEN 0
    ELSE Head(psets).n_parameters + TotalParameters(Tail(psets))

\* _create_and_register_paramsets: consecutive slices in canonical order
ParMap(psets) ==
    [i \in 1..Len(psets) |->
        [name |-> psets[i].name,
         start |-> TotalParameters(SubSeq(psets, 1, i - 1)) + 1,
         stop |-> TotalParameters(SubSeq(psets, 1, i))]]

Constrained(pset) == pset.paramset_type # "unconstrained"

\* config.auxdata: the auxdata of the constrained parameter sets, in order
Auxdata(psets) ==
    Concat([i \in 1..Len(psets) |->
        IF Constrained(psets[i]) THEN psets[i].auxdata ELSE <<>>])

AuxdataOrder(psets) ==
    Concat([i \in 1..Len(psets) |->
        IF Constrained(psets[i]) THEN <<psets[i].name>> ELSE <<>>])

SuggestedInit(psets) == Concat([i \in 1..Len(psets) |-> psets[i].inits])

\* config.suggested_bounds(): one (lower, upper) pair per slot
SuggestedBounds(psets) == Concat([i \in 1..Len(psets) |-> psets[i].bounds])

\* config.param_set(name).width(), squared: sigma^2 of a normal constraint,
\* 1 / (effective counts) of a Poisson one
Width2(pset) ==
    IF pset.paramset_type = "constrained_by_poisson"
    THEN [j \in 1..pset.n_parameters |-> QDiv(QInt(1), pset.factors[j])]
    ELSE pset.sigmas2

ParamSet(cfg, name) ==
    cfg.paramsets[CHOOSE i \in 1..Len(cfg.paramsets) : cfg.paramsets[i].name = name]

\* variant: the parameter sets labelled from the last to the first
ParNamesReversed(psets) ==
    Concat([i \in 1..Len(psets) |->
        [j \in 1..psets[Len(psets) + 1 - i].n_parameters |->
            <<psets[Len(psets) + 1 - i].name, j>>]])

\* config.par_names: one label per slot, (name, component)
ParNames(psets) ==
    Concat([i \in 1..Len(psets) |-> [j \in 1..psets[i].n_parameters |-> <<psets[i].name, j>>]])

\* the model configuration built once from a specification
Model(sp) ==
    LET psets == Paramsets(sp)
    IN  [par_order |-> ParOrder(sp),
         paramsets |-> psets,
         par_map |-> ParMap(psets),
         par_names |-> ParNames(psets),
         npars |-> Len(SuggestedInit(psets)),
         auxdata |-> Auxdata(psets),
         auxdata_order |-> AuxdataOrder(psets)]

(***************************************************************************)
(* Model evaluation.                                                       *)
(***************************************************************************)
ParEntry(cfg, name) ==
    cfg.par_map[CHOOSE i \in 1..Len(cfg.par_map) : cfg.par_map[i].name = name]

\* component j of the parameter set called name
ParValue(cfg, pars, name, j) == pars[ParEntry(cfg, name).start + j - 1]

\* variant: the upward shift used on both sides of the nominal
HistoSysDeltaSymmetric(alpha, lo, nom, hi) == QMul(QSub(hi, nom), alpha)

\* variant: straight lines between the anchors and beyond them
HistoSysDeltaPiecewiseLinear(alpha, lo, nom, hi) ==
    IF QLe(QInt(0), alpha) THEN QMul(QSub(hi, nom), alpha)
    ELSE QMul(QSub(nom, lo), alpha)

\* histosys (code4p): the additive shift of a bin for the shared alpha;
\* linear beyond the anchors, a polynomial between them
HistoSysDelta(alpha, lo, nom, hi) ==
    LET deltas_up == QSub(hi, nom)
        deltas_dn == QSub(nom, lo)
        S == QMul(Q(1, 2), QAdd(deltas_up, deltas_dn))
        A == QMul(Q(1, 16), QSub(deltas_up, deltas_dn))
        a2 == QMul(alpha, alpha)
        poly == QAdd(QInt(15), QMul(a2, QAdd(QInt(-10), QMul(QInt(3), a2))))
    IN  IF QLt(QInt(1), alpha) THEN QMul(deltas_up, alpha)
        ELSE IF QLt(alpha, QInt(-1)) THEN QMul(deltas_dn, alpha)
        ELSE QMul(alpha, QAdd(S, QMul(alpha, QMul(A, poly))))

\* normsys (code4): the multiplicative factor for the shared alpha, for the
\* integer values of alpha (its interior polynomial has logarithmic
\* coefficients and is 1 at alpha = 0)
NormSysFactor(alpha, lo, hi) ==
    IF QLe(QInt(1), alpha) THEN QPow(hi, alpha[1])
    ELSE IF QLe(alpha, QInt(-1)) THEN QPow(lo, -alpha[1])
    ELSE QInt(1)

\* variant: the bin number alone, whatever the channel
StatErrorIndexNoChannel(sp, name, c, i) == i

\* position of bin i of channel c among the staterror parameters of name
StatErrorIndex(sp, name, c, i) ==
    LET before == [d \in 1..(c - 1) |->
                      IF ChannelDeclares(sp[d], name, "staterror") THEN Bins(sp[d]) ELSE 0]
        Sum[d \in 0..(c - 1)] == IF d = 0 THEN 0 ELSE before[d] + Sum[d - 1]
    IN  Sum[c - 1] + i

\* additive shift of bin i by one modifier
ModifierDelta(cfg, pars, sam, mod, i) ==
    IF mod.type = "histosys"
    THEN HistoSysDelta(ParValue(cfg, pars, mod.name, 1), mod.lo[i], sam.data[i], mod.hi[i])
    ELSE QInt(0)

\* multiplicative factor on bin i of channel c by one modifier
ModifierFactor(sp, cfg, pars, c, mod, i) ==
    CASE mod.type = "normfactor" -> ParValue(cfg, pars, mod.name, 1)
      [] mod.type = "shapesys" -> ParValue(cfg, pars, mod.name, i)
      [] mod.type = "staterror" ->
            ParValue(cfg, pars, mod.name, StatErrorIndex(sp, mod.name, c, i))
      [] mod.type = "normsys" ->
            NormSysFactor(ParValue(cfg, pars, mod.name, 1), mod.lo[1], mod.hi[1])
      [] OTHER -> QInt(1)

\* expected yield of one sample in bin i: (nominal + deltas) * factors
SampleYield(sp, cfg, pars, c, sam, i) ==
    LET mods == sam.modifiers
        deltas == [m \in 1..Len(mods) |-> ModifierDelta(cfg, pars, sam, mods[m], i)]
        factors == [m \in 1..Len(mods) |-> ModifierFactor(sp, cfg, pars, c, mods[m], i)]
    IN  QMul(QAdd(sam.data[i], QSum(deltas)), QProd(factors))

\* variant: only the first sample of each channel is counted
ExpectedActualdataFirstSample(sp, cfg, pars) ==
    Concat([c \in 1..Len(sp) |->
        [i \in 1..Bins(sp[c]) |-> SampleYield(sp, cfg, pars, c, sp[c].samples[1], i)]])

\* model.expected_actualdata(pars): per channel, per bin, summed over samples
ExpectedActualdata(sp, cfg, pars) ==
    Concat([c \in 1..Len(sp) |->
        [i \in 1..Bins(sp[c]) |->
            QSum([k \in 1..Len(sp[c].samples) |->
                SampleYield(sp, cfg, pars, c, sp[c].samples[k], i)])]])

\* the slice of the parameter vector that belongs to a parameter set
ParSlice(cfg, pars, name) ==
    SubSeq(pars, ParEntry(cfg, name).start, ParEntry(cfg, name).stop)

\* variant: the parameter values themselves for every kind of constraint
ConstraintExpectedPlain(cfg, pars, pset) == ParSlice(cfg, pars, pset.name)

\* expectation of the auxiliary measurements of one constrained parameter set
ConstraintExpected(cfg, pars, pset) ==
    IF pset.paramset_type = "constrained_by_poisson"
    THEN [j \in 1..pset.n_parameters |->
            QMul(ParSlice(cfg, pars, pset.name)[j], pset.factors[j])]
    ELSE ParSlice(cfg, pars, pset.name)

\* variant: the normal constraints first, then the Poisson ones
ExpectedAuxdataByKind(cfg, pars) ==
    Concat([i \in 1..Len(cfg.paramsets) |->
        IF cfg.paramsets[i].paramset_type = "constrained_by_normal"
        THEN ConstraintExpected(cfg, pars, cfg.paramsets[i]) ELSE <<>>])
    \o Concat([i \in 1..Len(cfg.paramsets) |->
        IF cfg.paramsets[i].paramset_type = "constrained_by_poisson"
        THEN ConstraintExpected(cfg, pars, cfg.paramsets[i]) ELSE <<>>])

\* model.expected_auxdata(pars): the normal and the Poisson constraints,
\* put back into the order of config.auxdata
ExpectedAuxdata(cfg, pars) ==
    Concat([i \in 1..Len(cfg.paramsets) |->
        IF Constrained(cfg.paramsets[i])
        THEN ConstraintExpected(cfg, pars, cfg.paramsets[i])
        ELSE <<>>])

(***************************************************************************)
(* The notebook session: a model is built from a specification; parameter  *)
(* slots are set (as the sliders of the interactive plots do) and the      *)
(* model is evaluated at the current parameter vector.                     *)
(***************************************************************************)
\* at most this many slots differ from the suggested initial values
MaxMoved == 2

NormFactorValues == {Q(0, 1), Q(2, 1)}
GammaValues == {Q(1, 2)}
AlphaValues == {Q(-2, 1), Q(-1, 1), Q(-1, 2), Q(1, 2), Q(1, 1), Q(2, 1)}
AlphaIntValues == {Q(-2, 1), Q(-1, 1), Q(1, 1), Q(2, 1)}

\* the parameter set that owns slot i
SlotOwner(cfg, i) ==
    cfg.paramsets[CHOOSE p \in 1..Len(cfg.par_map) :
        cfg.par_map[p].start <= i /\ i <= cfg.par_map[p].stop]

SlotValues(sp, cfg, i) ==
    LET pset == SlotOwner(cfg, i)
    IN  IF pset.paramset_type = "unconstrained" THEN NormFactorValues
        ELSE IF pset.sigmas2 = <<QInt(1)>> /\ pset.inits = <<QInt(0)>>
        THEN (IF SpecDeclares(sp, pset.name, "normsys")
              THEN AlphaIntValues ELSE AlphaValues)
        ELSE GammaValues

Moved(cfg, pars) ==
    LET init == SuggestedInit(cfg.paramsets)
    IN  Cardinality({i \in 1..cfg.npars : pars[i] # init[i]})

\* a session that holds observations visits at most this many moved slots
MaxCallMoved == 1

MovedLimit == IF observed = <<>> THEN MaxMoved ELSE MaxCallMoved

AllSpecs == NotebookSpecs \cup CutCountSpecs \cup GeneratedSpecs

NoInterpolation ==
    [kind |-> "none", alpha |-> QInt(0), lo |-> QInt(0), nom |-> QInt(0),
     hi |-> QInt(0), out |-> QInt(0), done |-> FALSE]

\* no observation, no call made, no worker started, no hypothesis test,
NoCall == [op |-> "none", result |-> <<>>]
NoTest == [kind |-> "none"]
\* no table read, no interactive plot shown
NoTables == [kind |-> "none"]
NoWidgets == [kind |-> "none"]
Idle ==
    /\ observed = <<>>
    /\ out = NoCall
    /\ workers = <<>>
    /\ hypo = NoTest
    /\ tables = NoTables
    /\ widgets = NoWidgets

Init ==
    /\ spec \in AllSpecs
    /\ config = Model(spec)
    /\ parameters = SuggestedInit(config.paramsets)
    /\ actualdata = <<>>
    /\ auxexpected = <<>>
    /\ interp = NoInterpolation
    /\ Idle

\* parameters[i] = value
SetParameter(i, v) ==
    /\ parameters[i] # v
    /\ Moved(config, [parameters EXCEPT ![i] = v]) <= MovedLimit
    /\ parameters' = [parameters EXCEPT ![i] = v]
    /\ actualdata' = <<>>
    /\ auxexpected' = <<>>
    /\ out' = NoCall
    /\ UNCHANGED <<spec, config, interp, observed, workers, hypo, tables, widgets>>

\* parameters = model.config.suggested_init()
ResetParameters ==
    /\ parameters' = SuggestedInit(config.paramsets)
    /\ actualdata' = <<>>
    /\ auxexpected' = <<>>
    /\ out' = NoCall
    /\ UNCHANGED <<spec, config, interp, observed, workers, hypo, tables, widgets>>

CallExpectedActualdata ==
    /\ actualdata' = ExpectedActualdata(spec, config, parameters)
    /\ UNCHANGED <<spec, config, parameters, auxexpected, interp, observed, out, workers, hypo, tables, widgets>>

CallExpectedAuxdata ==
    /\ auxexpected' = ExpectedAuxdata(config, parameters)
    /\ UNCHANGED <<spec, config, parameters, actualdata, interp, observed, out, workers, hypo, tables, widgets>>

Next ==
    \/ \E i \in 1..config.npars :
         \E v \in SlotValues(spec, config, i) \cup {SuggestedInit(config.paramsets)[i]} :
            SetParameter(i, v)
    \/ ResetParameters
    \/ CallExpectedActualdata
    \/ CallExpectedAuxdata

Spec == Init /\ [][Next]_vars

(***************************************************************************)
(* The interpolation functions on their own: reference values lo, nominal, *)
(* hi drawn from a bounded grid of half-integers, in any order.            *)
(***************************************************************************)
MaxReference == 6

ReferenceValues == {Q(n, 2) : n \in 0..MaxReference}
PositiveReferenceValues == {Q(n, 2) : n \in 1..MaxReference}
InterpAlphas == AlphaValues \cup {QInt(0)}
InterpIntAlphas == AlphaIntValues \cup {QInt(0)}

InterpRequest(kind, alpha, lo, nom, hi) ==
    [kind |-> kind, alpha |-> alpha, lo |-> lo, nom |-> nom, hi |-> hi,
     out |-> QInt(0), done |-> FALSE]

InitInterp ==
    /\ spec = SpecCorr
    /\ config = Model(spec)
    /\ parameters = SuggestedInit(config.paramsets)
    /\ actualdata = <<>>
    /\ auxexpected = <<>>
    /\ Idle
    /\ \/ \E alpha \in InterpAlphas : \E lo, nom, hi \in ReferenceValues :
            interp = InterpRequest("histosys", alpha, lo, nom, hi)
       \/ \E alpha \in InterpIntAlphas : \E lo, hi \in PositiveReferenceValues :
            interp = InterpRequest("normsys", alpha, lo, QInt(1), hi)

\* histosys: the interpolated bin content, nominal + shift
InterpolateHistoSys ==
    /\ interp.kind = "histosys" /\ ~interp.done
    /\ interp' = [interp EXCEPT
                    !.out = QAdd(interp.nom,
                                 HistoSysDelta(interp.alpha, interp.lo, interp.nom, interp.hi)),
                    !.done = TRUE]
    /\ UNCHANGED <<spec, config, parameters, actualdata, auxexpected, observed, out, workers, hypo, tables, widgets>>

\* normsys: the interpolated scale factor (nominal factor 1)
InterpolateNormSys ==
    /\ interp.kind = "normsys" /\ ~interp.done
    /\ interp' = [interp EXCEPT
                    !.out = NormSysFactor(interp.alpha, interp.lo, interp.hi),
                    !.done = TRUE]
    /\ UNCHANGED <<spec, config, parameters, actualdata, auxexpected, observed, out, workers, hypo, tables, widgets>>

NextInterp ==
    \/ InterpolateHistoSys
    \/ InterpolateNormSys

SpecInterp == InitInterp /\ [][NextInterp]_vars

(***************************************************************************)
(* Calls on a built model that holds observations: the defaults, the      *)
(* expected data, the log-likelihood and the maximum-likelihood fit.      *)
(* A call leaves its value in out, as a notebook cell displays it.        *)
(***************************************************************************)
\* log Pois(n | lam) = xlogy(n, lam) - lam - gammaln(n + 1) in floating
\* point: the logarithm of 0 is -inf, that of a negative number is nan, and
\* xlogy(0, lam) is 0
LogPoisClass(n, lam) ==
    IF n = QInt(0) \/ QLt(QInt(0), lam) THEN "finite"
    ELSE IF lam = QInt(0) THEN "-inf"
    ELSE "nan"

\* a sum of floating-point terms: nan absorbs everything, then -inf
CombineClasses(cs) ==
    IF \E i \in 1..Len(cs) : cs[i] = "nan" THEN "nan"
    ELSE IF \E i \in 1..Len(cs) : cs[i] = "-inf" THEN "-inf"
    ELSE "finite"

\* the constraint kind of every auxiliary measurement
AuxKinds(cfg) ==
    Concat([i \in 1..Len(cfg.paramsets) |->
        IF Constrained(cfg.paramsets[i])
        THEN Repeat(cfg.paramsets[i].paramset_type, cfg.paramsets[i].n_parameters)
        ELSE <<>>])

\* model.expected_data(pars): the main expectation followed by the auxiliary one
ExpectedData(sp, cfg, pars) ==
    ExpectedActualdata(sp, cfg, pars) \o ExpectedAuxdata(cfg, pars)

\* model.logpdf(pars, obs): sum over the bins of log Pois(n_b | lambda_b)
\* plus the constraint terms; only the floating-point class of the value
LogpdfClass(sp, cfg, pars, obs) ==
    LET lam == ExpectedActualdata(sp, cfg, pars)
        expaux == ExpectedAuxdata(cfg, pars)
        kinds == AuxKinds(cfg)
        main == [b \in 1..Len(lam) |-> LogPoisClass(obs[b], lam[b])]
        constraint == [q \in 1..Len(expaux) |->
                          IF kinds[q] = "constrained_by_poisson"
                          THEN LogPoisClass(obs[Len(lam) + q], expaux[q])
                          ELSE "finite"]
    IN  CombineClasses(main \o constraint)

\* parameter vectors with the constrained slots at their initial values
FitCandidates(cfg) ==
    LET init == SuggestedInit(cfg.paramsets)
        free == {q \in 1..cfg.npars : ~Constrained(SlotOwner(cfg, q))}
    IN  {[q \in 1..cfg.npars |-> IF q \in free THEN f[q] ELSE init[q]] :
            f \in [free -> NormFactorValues \cup {QInt(1)}]}

\* pyhf.infer.mle.fit(obs, model) for observations that the model reproduces:
\* a vector at which every Poisson term has lambda_b = n_b and every
\* constraint term sits at its auxiliary measurement maximises each factor
\* of the likelihood, hence the likelihood
MleSet(sp, cfg, obs) ==
    {p \in FitCandidates(cfg) : ExpectedData(sp, cfg, p) = obs}

\* observations: the expectation of the model at some normalisation factors
Observations(sp, cfg) ==
    {ExpectedActualdata(sp, cfg, p) \o cfg.auxdata :
        p \in {c \in FitCandidates(cfg) : Moved(cfg, c) <= MaxCallMoved}}

\* one evaluation call of a worker on the shared model, from its own arguments
Evaluate(sp, cfg, pars, obs, op) ==
    CASE op = "expected_data" -> ExpectedData(sp, cfg, pars)
      [] op = "expected_auxdata" -> ExpectedAuxdata(cfg, pars)
      [] OTHER -> <<LogpdfClass(sp, cfg, pars, obs)>>

\* variant: the call reads the session's parameter list, not its own copy
EvaluateSessionParameters(w) ==
    Evaluate(spec, config, parameters, observed, workers[w].op)

\* the result a worker's call returns
WorkerResult(w) ==
    Evaluate(spec, config, workers[w].pars, observed, workers[w].op)

CallSpecs ==
    NotebookSpecs \cup {GeneratedSpec(Window(start, 1)) : start \in 1..Len(TemplateCycle)}

InitCalls ==
    /\ spec \in CallSpecs
    /\ config = Model(spec)
    /\ parameters = SuggestedInit(config.paramsets)
    /\ actualdata = <<>>
    /\ auxexpected = <<>>
    /\ interp = NoInterpolation
    /\ observed \in Observations(spec, config)
    /\ out = NoCall
    /\ workers = <<>>
    /\ hypo = NoTest
    /\ tables = NoTables
    /\ widgets = NoWidgets

\* model.config.suggested_init()
ShowSuggestedInit ==
    /\ out' = [op |-> "suggested_init", result |-> SuggestedInit(config.paramsets)]
    /\ UNCHANGED <<spec, config, parameters, actualdata, auxexpected, interp,
                   observed, workers, hypo, tables, widgets>>

\* model.config.suggested_bounds()
ShowSuggestedBounds ==
    /\ out' = [op |-> "suggested_bounds", result |-> SuggestedBounds(config.paramsets)]
    /\ UNCHANGED <<spec, config, parameters, actualdata, auxexpected, interp,
                   observed, workers, hypo, tables, widgets>>

\* model.expected_data(parameters)
ShowExpectedData ==
    /\ out' = [op |-> "expected_data", result |-> ExpectedData(spec, config, parameters)]
    /\ UNCHANGED <<spec, config, parameters, actualdata, auxexpected, interp,
                   observed, workers, hypo, tables, widgets>>

\* model.expected_auxdata(parameters)
ShowExpectedAuxdata ==
    /\ out' = [op |-> "expected_auxdata", result |-> ExpectedAuxdata(config, parameters)]
    /\ UNCHANGED <<spec, config, parameters, actualdata, auxexpected, interp,
                   observed, workers, hypo, tables, widgets>>

\* model.logpdf(parameters, observations)
ShowLogpdf ==
    /\ out' = [op |-> "logpdf",
               result |-> <<LogpdfClass(spec, config, parameters, observed)>>]
    /\ UNCHANGED <<spec, config, parameters, actualdata, auxexpected, interp,
                   observed, workers, hypo, tables, widgets>>

\* parameters = pyhf.infer.mle.fit(observations, model)
Fit ==
    /\ \E p \in MleSet(spec, config, observed) :
          /\ parameters' = p
          /\ out' = [op |-> "fit", result |-> p]
    /\ actualdata' = <<>>
    /\ auxexpected' = <<>>
    /\ UNCHANGED <<spec, config, interp, observed, workers, hypo, tables, widgets>>

NextCalls ==
    \/ \E i \in 1..config.npars :
         \E v \in SlotValues(spec, config, i) \cup {SuggestedInit(config.paramsets)[i]} :
            SetParameter(i, v)
    \/ ResetParameters
    \/ ShowSuggestedInit
    \/ ShowSuggestedBounds
    \/ ShowExpectedData
    \/ ShowExpectedAuxdata
    \/ ShowLogpdf
    \/ Fit

SpecCalls == InitCalls /\ [][NextCalls]_vars

(***************************************************************************)
(* Properties.                                                             *)
(***************************************************************************)
Range(f) == {f[i] : i \in DOMAIN f}

\* F(1) + ... + F(n)
SumOver(n, F(_)) ==
    LET S[i \in 0..n] == IF i = 0 THEN 0 ELSE F(i) + S[i - 1]
    IN  S[n]

\* the sum of F over the names of a set
NameSum(names, F(_)) ==
    SumOver(Len(AllParNames),
            LAMBDA i : IF AllParNames[i] \in names THEN F(AllParNames[i]) ELSE 0)

InitVector == SuggestedInit(config.paramsets)
MovedSlots == {q \in 1..Len(parameters) : parameters[q] # InitVector[q]}

DeclaredNames(type) == {n \in Range(AllParNames) : SpecDeclares(spec, n, type)}
AllDeclaredNames == UNION {DeclaredNames(ModifierTypes[t]) : t \in 1..Len(ModifierTypes)}
SliceLen(name) == ParEntry(config, name).stop - ParEntry(config, name).start + 1

\* first position of channel c in the main data, minus one
ChannelOffset(c) ==
    LET Off[d \in 0..(c - 1)] == IF d = 0 THEN 0 ELSE Bins(spec[d]) + Off[d - 1]
    IN  Off[c - 1]

\* the nominal total of every bin: the sum of the samples' yields
NominalTotal ==
    Concat([c \in 1..Len(spec) |->
        [i \in 1..Bins(spec[c]) |->
            QSum([k \in 1..Len(spec[c].samples) |-> spec[c].samples[k].data[i]])]])

\* relative effect of one modifier on bin i of a sample of channel c
C1Effect(sam, mod, c, i) ==
    CASE mod.type = "normfactor" -> ParSlice(config, parameters, mod.name)[1]
      [] mod.type = "shapesys" -> ParSlice(config, parameters, mod.name)[i]
      [] mod.type = "staterror" ->
            ParSlice(config, parameters, mod.name)[StatErrorIndex(spec, mod.name, c, i)]
      [] mod.type = "normsys" ->
            NormSysFactor(ParSlice(config, parameters, mod.name)[1], mod.lo[1], mod.hi[1])
      [] mod.type = "histosys" ->
            QDiv(QAdd(sam.data[i],
                      HistoSysDelta(ParSlice(config, parameters, mod.name)[1],
                                    mod.lo[i], sam.data[i], mod.hi[i])),
                 sam.data[i])

C1Bin(c, i) ==
    QSum([k \in 1..Len(spec[c].samples) |->
        LET sam == spec[c].samples[k]
        IN  QMul(sam.data[i],
                 QProd([m \in 1..Len(sam.modifiers) |-> C1Effect(sam, sam.modifiers[m], c, i)]))])

\* C1: the expected main data of a channel is, bin by bin, the sum over its
\* samples of the nominal yield times the compounded effect of the sample's
\* modifiers; for the two-normfactor model it is mu1*hist1_b + mu2*hist2_b.
C1_ExpectedYield ==
    actualdata # <<>> =>
        /\ actualdata = Concat([c \in 1..Len(spec) |-> [i \in 1..Bins(spec[c]) |-> C1Bin(c, i)]])
        /\ spec = SpecTwoNorm =>
             \A i \in 1..Len(hist1) :
                actualdata[i] = QAdd(QMul(parameters[1], hist1[i]),
                                     QMul(parameters[2], hist2[i]))

C1_Witness ==
    /\ spec = SpecTwoNorm
    /\ actualdata # <<>>
    /\ MovedSlots = {1, 2}
    /\ parameters[1] # parameters[2]

NameCount(names, name) == Cardinality({i \in 1..Len(names) : names[i] = name})

\* the samples that declare a histosys and a normsys of the same name
NormPlusShapes ==
    {<<c, k, n>> \in (1..Len(spec)) \X (1..2) \X DeclaredNames("normsys") :
        /\ k <= Len(spec[c].samples)
        /\ Declares(spec[c].samples[k], n, "histosys")
        /\ Declares(spec[c].samples[k], n, "normsys")}

\* C2: modifiers that use the same name resolve to one registry entry, one
\* value and one constraint term; a histosys and a normsys of the same name
\* on a sample give exactly one nuisance parameter in par_names.
C2_SharedParameter ==
    /\ LET names == AllDeclaredNames
       IN \A n \in Range(AllParNames) :
          LET declared == IF n \in names THEN 1 ELSE 0
          IN  /\ NameCount(config.par_order, n) = declared
              /\ Cardinality({i \in 1..Len(config.par_map) : config.par_map[i].name = n})
                    = declared
    /\ \A x \in NormPlusShapes :
          /\ Cardinality({q \in 1..Len(config.par_names) : config.par_names[q][1] = x[3]}) = 1
          /\ NameCount(config.auxdata_order, x[3]) = 1
          /\ (actualdata # <<>> /\ Len(spec[x[1]].samples) = 1
                /\ Len(spec[x[1]].samples[1].modifiers) = 2) =>
                LET sam == spec[x[1]].samples[1]
                    a == parameters[ParEntry(config, x[3]).start]
                    h == TheModifier(sam, x[3], "histosys")
                    ns == TheModifier(sam, x[3], "normsys")
                IN  \A i \in 1..Bins(spec[x[1]]) :
                        actualdata[ChannelOffset(x[1]) + i] =
                            QMul(QAdd(sam.data[i],
                                      HistoSysDelta(a, h.lo[i], sam.data[i], h.hi[i])),
                                 NormSysFactor(a, ns.lo[1], ns.hi[1]))

C2_Witness ==
    /\ NormPlusShapes # {}
    /\ actualdata # <<>>
    /\ \E x \in NormPlusShapes : parameters[ParEntry(config, x[3]).start] # QInt(0)

\* the channel whose sample declares the shapesys
ShapeSysBins(n) ==
    Bins(spec[CHOOSE c \in 1..Len(spec) : ChannelDeclares(spec[c], n, "shapesys")])

\* the bins of all channels in which a sample declares the staterror
StatErrorBins(n) ==
    LET B(c) == IF ChannelDeclares(spec[c], n, "staterror") THEN Bins(spec[c]) ELSE 0
    IN  SumOver(Len(spec), B)

\* C3: the number of parameters follows from the declared modifiers: 1 per
\* normfactor name, one per bin per shapesys name, 1 per histosys/normsys
\* name; normfactor + shapesys on 10 bins gives 11, normfactor + histosys 2.
C3_ParameterCount ==
    /\ \A n \in DeclaredNames("normfactor") : SliceLen(n) = 1
    /\ \A n \in DeclaredNames("shapesys") : SliceLen(n) = ShapeSysBins(n)
    /\ \A n \in DeclaredNames("histosys") \cup DeclaredNames("normsys") : SliceLen(n) = 1
    /\ config.npars =
          Cardinality(DeclaredNames("normfactor"))
          + NameSum(DeclaredNames("shapesys"), ShapeSysBins)
          + Cardinality(DeclaredNames("histosys") \cup DeclaredNames("normsys"))
          + NameSum(DeclaredNames("staterror"), StatErrorBins)
    /\ Len(parameters) = config.npars
    /\ spec = SpecUncorr => config.npars = 11
    /\ spec = SpecCorr => Len(config.par_names) = 2

C3_Witness ==
    /\ spec = SpecUncorr
    /\ config.npars = 11
    /\ Len(parameters) = 11

\* C4: same-named staterror modifiers of a channel share one gamma and one
\* sigma per bin however many samples declare them (two 10-bin samples with
\* a normfactor each give 12 parameters); channels keep separate gammas.
C4_StatErrorShared ==
    /\ \A n \in DeclaredNames("staterror") :
          /\ SliceLen(n) = StatErrorBins(n)
          /\ \E p \in 1..Len(config.paramsets) :
                /\ config.paramsets[p].name = n
                /\ Len(config.paramsets[p].sigmas2) = StatErrorBins(n)
    /\ spec = SpecStat => config.npars = 12
    /\ \A q \in 1..Len(parameters) :
          (/\ actualdata # <<>>
           /\ MovedSlots = {q}
           /\ SlotOwner(config, q).name \in DeclaredNames("staterror")) =>
              LET n == SlotOwner(config, q).name
                  changed == {pos \in 1..Len(actualdata) : actualdata[pos] # NominalTotal[pos]}
              IN  /\ Cardinality(changed) = 1
                  /\ \A c \in 1..Len(spec) : \A i \in 1..Bins(spec[c]) :
                        (ChannelOffset(c) + i) \in changed =>
                            /\ ChannelDeclares(spec[c], n, "staterror")
                            /\ actualdata[ChannelOffset(c) + i] =
                                 QSum([k \in 1..Len(spec[c].samples) |->
                                    IF Declares(spec[c].samples[k], n, "staterror")
                                    THEN QMul(parameters[q], spec[c].samples[k].data[i])
                                    ELSE spec[c].samples[k].data[i]])

C4_Witness ==
    /\ actualdata # <<>>
    /\ \E q \in 1..Len(parameters) :
          /\ MovedSlots = {q}
          /\ LET n == SlotOwner(config, q).name
             IN  /\ n \in DeclaredNames("staterror")
                 /\ Cardinality({c \in 1..Len(spec) :
                        ChannelDeclares(spec[c], n, "staterror")}) = 2
                 /\ \E c \in 1..Len(spec) :
                        Cardinality({k \in 1..Len(spec[c].samples) :
                            Declares(spec[c].samples[k], n, "staterror")}) = 2

ConstrainedSlots == {q \in 1..config.npars : Constrained(SlotOwner(config, q))}

\* position of the auxiliary datum of constrained slot q in config.auxdata
AuxPos(q) == q - Cardinality({r \in 1..q : ~Constrained(SlotOwner(config, r))})

\* C5: config.auxdata has one slot per constrained parameter component and
\* none for normfactors, in the order of expected_auxdata; there is one
\* constraint per registry entry however many channels declare the name.
C5_AuxdataSlots ==
    /\ Len(config.auxdata) = Cardinality(ConstrainedSlots)
    /\ \A n \in DeclaredNames("normfactor") : NameCount(config.auxdata_order, n) = 0
    /\ \A n \in AllDeclaredNames \ DeclaredNames("normfactor") :
          NameCount(config.auxdata_order, n) = 1
    /\ auxexpected # <<>> =>
          /\ Len(auxexpected) = Len(config.auxdata)
          /\ {pos \in 1..Len(auxexpected) : auxexpected[pos] # config.auxdata[pos]}
                = {AuxPos(q) : q \in MovedSlots \cap ConstrainedSlots}

C5_Witness ==
    /\ auxexpected # <<>>
    /\ DeclaredNames("shapesys") # {}
    /\ DeclaredNames("staterror") # {}
    /\ \E q \in MovedSlots : SlotOwner(config, q).name \in DeclaredNames("staterror")
    /\ \E q \in MovedSlots : ~Constrained(SlotOwner(config, q))

AuxStart(n) == AuxPos(ParEntry(config, n).start)

\* C6: the auxiliary datum of a constrained parameter is fixed by the
\* modifier kind: (nominal / absolute uncertainty)^2 per bin for shapesys,
\* 1 per bin for staterror, 0 for histosys and normsys.
C6_AuxdataValues ==
    /\ \A n \in DeclaredNames("shapesys") :
          \A c \in 1..Len(spec) : \A k \in 1..Len(spec[c].samples) :
             Declares(spec[c].samples[k], n, "shapesys") =>
                \A i \in 1..Bins(spec[c]) :
                   LET y == spec[c].samples[k].data[i]
                       unc2 == TheModifier(spec[c].samples[k], n, "shapesys").data[i]
                   IN  config.auxdata[AuxStart(n) + i - 1] = QDiv(QMul(y, y), unc2)
    /\ \A n \in DeclaredNames("staterror") :
          \A j \in 1..SliceLen(n) : config.auxdata[AuxStart(n) + j - 1] = QInt(1)
    /\ \A n \in DeclaredNames("histosys") \cup DeclaredNames("normsys") :
          config.auxdata[AuxStart(n)] = QInt(0)
    /\ spec = SpecUncorr =>
          config.auxdata =
             [i \in 1..Len(hist1) |->
                QMul(QDiv(hist1[i], hist1_uncorr_err[i]), QDiv(hist1[i], hist1_uncorr_err[i]))]

C6_Witness ==
    /\ spec = SpecUncorr
    /\ Len(config.auxdata) = 10
    /\ config.auxdata[1] = Q(225, 16)

\* C7: expected_auxdata returns gamma_b * auxdata_b for a Poisson-constrained
\* slot and gamma_b (or alpha) for a Gaussian-constrained one, so at the
\* suggested initial values it equals config.auxdata for shapesys and
\* staterror.
C7_ExpectedAuxdata ==
    auxexpected # <<>> =>
        /\ \A q \in ConstrainedSlots :
              auxexpected[AuxPos(q)] =
                 IF SlotOwner(config, q).name \in DeclaredNames("shapesys")
                 THEN QMul(parameters[q], config.auxdata[AuxPos(q)])
                 ELSE parameters[q]
        /\ parameters = InitVector =>
              \A q \in ConstrainedSlots :
                 SlotOwner(config, q).name
                       \in DeclaredNames("shapesys") \cup DeclaredNames("staterror") =>
                    auxexpected[AuxPos(q)] = config.auxdata[AuxPos(q)]

C7_Witness ==
    /\ auxexpected # <<>>
    /\ DeclaredNames("staterror") # {}
    /\ \E q \in MovedSlots :
          /\ SlotOwner(config, q).name \in DeclaredNames("shapesys")
          /\ auxexpected[AuxPos(q)] # config.auxdata[AuxPos(q)]

\* C8: the staterror width of a bin is sqrt(sum of delta^2) / (sum of
\* yields) over the declaring samples (compared as squares); for yields
\* hist1, hist2 with errors sqrt(hist1), sqrt(hist2) it is
\* sqrt(hist1 + hist2) / (hist1 + hist2).
C8_StatErrorWidth ==
    /\ \A n \in DeclaredNames("staterror") :
          \A c \in 1..Len(spec) : ChannelDeclares(spec[c], n, "staterror") =>
             \A i \in 1..Bins(spec[c]) :
                LET sams == spec[c].samples
                    d2 == QSum([k \in 1..Len(sams) |->
                             IF Declares(sams[k], n, "staterror")
                             THEN TheModifier(sams[k], n, "staterror").data[i]
                             ELSE QInt(0)])
                    y == QSum([k \in 1..Len(sams) |->
                             IF Declares(sams[k], n, "staterror")
                             THEN sams[k].data[i] ELSE QInt(0)])
                IN  Width2(ParamSet(config, n))[
                          SumOver(c - 1, LAMBDA d :
                              IF ChannelDeclares(spec[d], n, "staterror")
                              THEN Bins(spec[d]) ELSE 0) + i]
                      = QDiv(d2, QMul(y, y))
    /\ spec = SpecStat =>
          \A i \in 1..Len(hist1) :
             LET total == QAdd(hist1[i], hist2[i])
             IN  Width2(ParamSet(config, "statistical_error"))[i]
                    = QDiv(total, QMul(total, total))

C8_Witness ==
    /\ spec = SpecStat
    /\ Len(Width2(ParamSet(config, "statistical_error"))) = 10
    /\ Width2(ParamSet(config, "statistical_error"))[1] = Q(2, 9)

\* C9: the single-bin cut-and-count model has expected_actualdata([mu,
\* gamma]) = [mu*s + gamma*b] and auxiliary datum (b / delta_b)^2; s = 7,
\* b = 5, delta_b = 2 give 6.25, [12] at [1, 1] and [19] at [2, 1].
C9_CutAndCount ==
    /\ \A sg \in CutCountSignals : \A bk \in CutCountBackgrounds :
         \A un \in CutCountUncertainties :
            spec = uncorrelated_background(<<QInt(sg)>>, <<QInt(bk)>>, <<QInt(un)>>) =>
               /\ config.auxdata = <<QMul(Q(bk, un), Q(bk, un))>>
               /\ Len(parameters) = 2
               /\ actualdata # <<>> =>
                     actualdata = <<QAdd(QMul(parameters[1], QInt(sg)),
                                         QMul(parameters[2], QInt(bk)))>>
    /\ spec = SpecCutCount =>
          /\ config.auxdata = <<Q(625, 100)>>
          /\ (actualdata # <<>> /\ parameters = <<QInt(1), QInt(1)>>) =>
                actualdata = <<QInt(12)>>
          /\ (actualdata # <<>> /\ parameters = <<QInt(2), QInt(1)>>) =>
                actualdata = <<QInt(19)>>

C9_Witness ==
    /\ spec = SpecCutCount
    /\ parameters = <<QInt(2), QInt(1)>>
    /\ actualdata = <<QInt(19)>>

\* C10: for any lo / nominal / hi, in any order, the interpolation gives
\* exactly nominal at alpha = 0, hi at alpha = 1 and lo at alpha = -1.
C10_InterpolationAnchors ==
    interp.done =>
        /\ interp.alpha = QInt(0) => interp.out = interp.nom
        /\ interp.alpha = QInt(1) => interp.out = interp.hi
        /\ interp.alpha = QInt(-1) => interp.out = interp.lo

C10_Witness ==
    /\ interp.done
    /\ interp.kind = "histosys"
    /\ interp.alpha = QInt(-1)
    /\ QLt(interp.hi, interp.lo)
    /\ QLt(interp.lo, interp.nom)
    /\ interp.out = interp.lo

\* the straight line through the anchors: nominal to hi for alpha >= 0,
\* lo to nominal for alpha < 0
LinearBetweenAnchors(alpha, lo, nom, hi) ==
    IF QLe(QInt(0), alpha) THEN QAdd(nom, QMul(alpha, QSub(hi, nom)))
    ELSE QAdd(nom, QMul(alpha, QSub(nom, lo)))

\* C11 (as stated): the histosys interpolation is linear in alpha inside
\* [-1, 1], between the lo, nominal and hi anchors.
C11_LinearInside ==
    (interp.done /\ interp.kind = "histosys"
        /\ QLe(QInt(-1), interp.alpha) /\ QLe(interp.alpha, QInt(1))) =>
        interp.out = LinearBetweenAnchors(interp.alpha, interp.lo, interp.nom, interp.hi)

\* C11 (amended): the histosys interpolation is linear in alpha from the
\* anchors outwards (alpha >= 1 with slope hi - nominal, alpha <= -1 with
\* slope nominal - lo), and strictly inside (-1, 1) it leaves the straight
\* line between the anchors unless hi - nominal = nominal - lo or alpha = 0.
C11_LinearOutside ==
    (interp.done /\ interp.kind = "histosys") =>
        /\ QLe(QInt(1), interp.alpha) =>
              interp.out = QAdd(interp.nom, QMul(interp.alpha, QSub(interp.hi, interp.nom)))
        /\ QLe(interp.alpha, QInt(-1)) =>
              interp.out = QAdd(interp.nom, QMul(interp.alpha, QSub(interp.nom, interp.lo)))
        /\ (QLt(QInt(-1), interp.alpha) /\ QLt(interp.alpha, QInt(1))) =>
              ((interp.out
                  = LinearBetweenAnchors(interp.alpha, interp.lo, interp.nom, interp.hi))
               <=> (\/ interp.alpha = QInt(0)
                    \/ QSub(interp.hi, interp.nom) = QSub(interp.nom, interp.lo)))

C11_Witness ==
    /\ interp.done
    /\ interp.kind = "histosys"
    /\ interp.alpha = Q(1, 2)
    /\ QLt(interp.lo, interp.nom)
    /\ QLt(interp.nom, interp.hi)
    /\ QSub(interp.hi, interp.nom) # QSub(interp.nom, interp.lo)
    /\ interp.out # LinearBetweenAnchors(interp.alpha, interp.lo, interp.nom, interp.hi)

\* the slots whose parameter set belongs to a modifier kind
SlotsOfType(type) ==
    {q \in 1..config.npars : SlotOwner(config, q).name \in DeclaredNames(type)}

\* C12: every normfactor parameter has suggested initial value 1 and
\* suggested bounds [0, 10]; every shapesys / staterror gamma and the
\* parameter of interest mu of the cut-and-count model have initial value 1.
C12_SuggestedDefaults ==
    LET init == SuggestedInit(config.paramsets)
        bounds == SuggestedBounds(config.paramsets)
    IN  /\ Len(init) = config.npars
        /\ Len(bounds) = config.npars
        /\ \A q \in SlotsOfType("normfactor") :
              /\ init[q] = QInt(1)
              /\ bounds[q] = <<Sci(0, 0), Sci(1, 1)>>
              /\ MovedSlots = {} => parameters[q] = QInt(1)
        /\ \A q \in SlotsOfType("shapesys") \cup SlotsOfType("staterror") :
              /\ init[q] = QInt(1)
              /\ MovedSlots = {} => parameters[q] = QInt(1)
        /\ spec \in CutCountSpecs =>
              SubSeq(init, ParEntry(config, "mu").start, ParEntry(config, "mu").stop)
                 = <<QInt(1)>>

C12_Witness ==
    /\ spec = SpecCutCount
    /\ SlotsOfType("normfactor") = {1}
    /\ SlotsOfType("shapesys") = {2}
    /\ MovedSlots = {}
    /\ actualdata # <<>>
    /\ SuggestedBounds(config.paramsets)[1] = <<Sci(0, 0), Sci(1, 1)>>

\* ------------------------------------------------------------------
\* Independent workers evaluating one shared model
\* ------------------------------------------------------------------

\* the two callers whose calls are compared
Callers == {1, 2}

EvaluationOps == {"expected_data", "expected_auxdata", "logpdf"}

IdleWorker == [pc |-> "idle", op |-> "none", pars |-> <<>>, result |-> <<>>]

\* the normalisation-factor sliders
FreeSlots(cfg) == {q \in 1..cfg.npars : ~Constrained(SlotOwner(cfg, q))}

InitWorkers ==
    /\ spec \in NotebookSpecs
    /\ config = Model(spec)
    /\ parameters = SuggestedInit(config.paramsets)
    /\ actualdata = <<>>
    /\ auxexpected = <<>>
    /\ interp = NoInterpolation
    /\ observed = ExpectedActualdata(spec, config, parameters) \o config.auxdata
    /\ out = NoCall
    /\ workers = [w \in Callers |-> IdleWorker]
    /\ hypo = NoTest
    /\ tables = NoTables
    /\ widgets = NoWidgets

\* a worker copies the slider values into its own parameter list and calls
WorkerCall(w, op) ==
    /\ workers[w].pc = "idle"
    /\ workers' = [workers EXCEPT ![w] =
                      [pc |-> "calling", op |-> op, pars |-> parameters, result |-> <<>>]]
    /\ UNCHANGED <<spec, config, parameters, actualdata, auxexpected, interp,
                   observed, out, hypo, tables, widgets>>

\* the call returns
WorkerReturn(w) ==
    /\ workers[w].pc = "calling"
    /\ workers' = [workers EXCEPT ![w].pc = "done", ![w].result = WorkerResult(w)]
    /\ UNCHANGED <<spec, config, parameters, actualdata, auxexpected, interp,
                   observed, out, hypo, tables, widgets>>

\* the worker drops its result and is free for the next call
WorkerRelease(w) ==
    /\ workers[w].pc = "done"
    /\ workers' = [workers EXCEPT ![w] = IdleWorker]
    /\ UNCHANGED <<spec, config, parameters, actualdata, auxexpected, interp,
                   observed, out, hypo, tables, widgets>>

NextWorkers ==
    \/ \E i \in FreeSlots(config) :
         \E v \in SlotValues(spec, config, i) \cup {SuggestedInit(config.paramsets)[i]} :
            SetParameter(i, v)
    \/ \E w \in Callers : \E op \in EvaluationOps : WorkerCall(w, op)
    \/ \E w \in Callers : WorkerReturn(w)
    \/ \E w \in Callers : WorkerRelease(w)

SpecWorkers == InitWorkers /\ [][NextWorkers]_vars

\* ------------------------------------------------------------------
\* Building a model from a specification that may be malformed
\* ------------------------------------------------------------------

\* the state before pyhf.Model(spec) has returned
NoModel ==
    [par_order |-> <<>>, paramsets |-> <<>>, par_map |-> <<>>, par_names |-> <<>>,
     npars |-> 0, auxdata |-> <<>>, auxdata_order |-> <<>>]

ModifierFields == {"name", "type", "data", "lo", "hi"}

\* (channel, sample, modifier) positions of a specification
ModifierPaths(sp) ==
    {<<c, k, m>> \in (1..Len(sp)) \X (1..2) \X (1..2) :
        /\ k <= Len(sp[c].samples)
        /\ m <= Len(sp[c].samples[k].modifiers)}

\* every modifier carries all its fields
SchemaValid(sp) ==
    \A c \in 1..Len(sp) : \A k \in 1..Len(sp[c].samples) :
        \A m \in 1..Len(sp[c].samples[k].modifiers) :
            ModifierFields \subseteq DOMAIN sp[c].samples[k].modifiers[m]

\* the vectors of a modifier that hold one entry per bin
BinwiseVectors(mod) ==
    CASE mod.type \in {"shapesys", "staterror"} -> {mod.data}
      [] mod.type = "histosys" -> {mod.lo, mod.hi}
      [] OTHER -> {}

\* every sample and every bin-wise modifier has one entry per bin of its channel
LengthsValid(sp) ==
    \A c \in 1..Len(sp) : \A k \in 1..Len(sp[c].samples) :
        /\ Len(sp[c].samples[k].data) = Bins(sp[c])
        /\ \A m \in 1..Len(sp[c].samples[k].modifiers) :
              \A v \in BinwiseVectors(sp[c].samples[k].modifiers[m]) :
                  Len(v) = Bins(sp[c])

\* what a modifier kind asks of the parameter set it names
ParsetRequirement(type, nbins) ==
    CASE type = "normfactor" -> <<"unconstrained", 1>>
      [] type = "shapesys" -> <<"constrained_by_poisson", nbins>>
      [] type = "staterror" -> <<"constrained_by_normal", nbins>>
      [] OTHER -> <<"constrained_by_normal", 1>>

\* variant: a reused name takes the requirement of whichever modifier comes first
RequirementsOnFirst(sp, name) ==
    LET all == {ParsetRequirement(sp[p[1]].samples[p[2]].modifiers[p[3]].type,
                                  Bins(sp[p[1]])) :
                   p \in {q \in ModifierPaths(sp) :
                             sp[q[1]].samples[q[2]].modifiers[q[3]].name = name}}
    IN  IF all = {} THEN {} ELSE {CHOOSE r \in all : TRUE}

\* the requirements placed on one name by all the modifiers that use it
RequirementsOn(sp, name) ==
    {ParsetRequirement(sp[p[1]].samples[p[2]].modifiers[p[3]].type, Bins(sp[p[1]])) :
        p \in {q \in ModifierPaths(sp) :
                  sp[q[1]].samples[q[2]].modifiers[q[3]].name = name}}

\* a name is reused only by modifiers that ask for the same parameter set
NamesValid(sp) ==
    \A n \in Range(AllParNames) : Cardinality(RequirementsOn(sp, n)) <= 1

\* the validation run by pyhf.Model(spec): the first defect found, or "ok"
Validate(sp) ==
    IF ~SchemaValid(sp) THEN "missing field"
    ELSE IF ~LengthsValid(sp) THEN "length mismatch"
    ELSE IF ~NamesValid(sp) THEN "name reuse"
    ELSE "ok"

\* the specification with modifier p replaced
WithModifier(sp, p, mod) ==
    [sp EXCEPT ![p[1]].samples[p[2]].modifiers[p[3]] = mod]

TheModifierAt(sp, p) == sp[p[1]].samples[p[2]].modifiers[p[3]]

\* a bin-wise modifier renamed to a normalisation factor of the same
\* specification, or the reverse
NameClashSpecs(sp) ==
    {WithModifier(sp, p, [TheModifierAt(sp, p) EXCEPT !.name = TheModifierAt(sp, q).name]) :
        <<p, q>> \in {<<a, b>> \in ModifierPaths(sp) \X ModifierPaths(sp) :
            /\ TheModifierAt(sp, a).type \in {"shapesys", "staterror", "histosys", "normsys"}
            /\ TheModifierAt(sp, b).type = "normfactor"}}

\* the per-bin vector of one modifier, or the data of a later sample, one bin short
LengthMismatchSpecs(sp) ==
    {WithModifier(sp, p,
        [TheModifierAt(sp, p) EXCEPT
            !.data = SubSeq(@, 1, Len(@) - 1), !.lo = SubSeq(@, 1, Len(@) - 1)]) :
        p \in {a \in ModifierPaths(sp) :
                  TheModifierAt(sp, a).type \in {"shapesys", "staterror", "histosys"}}}
    \cup
    {[sp EXCEPT ![c].samples[2].data = SubSeq(@, 1, Len(@) - 1)] :
        c \in {d \in 1..Len(sp) : Len(sp[d].samples) >= 2}}

\* one modifier without its "data" entry
MissingFieldSpecs(sp) ==
    {WithModifier(sp, p,
        [f \in ModifierFields \ {"data"} |-> TheModifierAt(sp, p)[f]]) :
        p \in ModifierPaths(sp)}

BrokenSpecs ==
    UNION {NameClashSpecs(sp) \cup LengthMismatchSpecs(sp) \cup MissingFieldSpecs(sp) :
              sp \in CallSpecs}

InitBuild ==
    /\ spec \in CallSpecs \cup BrokenSpecs
    /\ config = NoModel
    /\ parameters = <<>>
    /\ actualdata = <<>>
    /\ auxexpected = <<>>
    /\ interp = NoInterpolation
    /\ Idle

\* model = pyhf.Model(spec): validation, then construction
Build ==
    /\ out = NoCall
    /\ config = NoModel
    /\ LET verdict == Validate(spec)
       IN  IF verdict = "ok"
           THEN /\ config' = Model(spec)
                /\ parameters' = SuggestedInit(Model(spec).paramsets)
                /\ out' = [op |-> "build", result |-> <<"model">>]
           ELSE /\ config' = NoModel
                /\ parameters' = <<>>
                /\ out' = [op |-> "build", result |-> <<"error", verdict>>]
    /\ UNCHANGED <<spec, actualdata, auxexpected, interp, observed, workers, hypo, tables, widgets>>

\* the first call on a model that was built
FirstEvaluation ==
    /\ out = [op |-> "build", result |-> <<"model">>]
    /\ out' = [op |-> "expected_data", result |-> ExpectedData(spec, config, parameters)]
    /\ UNCHANGED <<spec, config, parameters, actualdata, auxexpected, interp,
                   observed, workers, hypo, tables, widgets>>

NextBuild == Build \/ FirstEvaluation

SpecBuild == InitBuild /\ [][NextBuild]_vars

\* ------------------------------------------------------------------
\* The maximum-likelihood fit of the two-normfactor model to data
\* ------------------------------------------------------------------

\* cells per unit of a normalisation factor: the fit is followed on a grid
Resolution == 10

\* derivative bounds are kept as integers in units of this
ScoreUnit == Q(1, 1000)

\* an integer bound a * 10^b, b >= 0, as a number
SciInt(s) == s.mant * 10^s.exp

\* the fit range of a normalisation factor, in cells
FitLower == SciInt(SuggestedBoundsOf("normfactor")[1]) * Resolution
FitUpper == SciInt(SuggestedBoundsOf("normfactor")[2]) * Resolution

\* a yield in hundredths, a count as an integer
Hundredths(q) == (q[1] * 100) \div q[2]
Count(q) == q[1] \div q[2]

Floor(a, b) == a \div b
Ceil(a, b) == (a + b - 1) \div b

\* the directions along which the optimiser looks for an ascent
FitDirections == {<<1, 0>>, <<0, 1>>, <<1, -1>>}

\* the expected yield of bin b at the grid point (i, j) / Resolution, in units
\* of 1 / (100 * Resolution)
GridRate(sp, i, j, b) ==
    i * Hundredths(sp[1].samples[1].data[b]) + j * Hundredths(sp[1].samples[2].data[b])

\* variant: the normalisation term of the Poisson likelihood left out
BinSlopeNoNorm(c, n, lmin, lmax) ==
    IF c = 0 \/ n = 0 THEN [lo |-> 0, hi |-> 0, loinf |-> FALSE, hiinf |-> FALSE]
    ELSE IF c > 0
    THEN [lo |-> Floor(c * ScoreUnit[2] * Resolution * n, lmax),
          hi |-> IF lmin = 0 THEN 0 ELSE Ceil(c * ScoreUnit[2] * Resolution * n, lmin),
          loinf |-> FALSE, hiinf |-> lmin = 0]
    ELSE [lo |-> IF lmin = 0 THEN 0 ELSE -Ceil((-c) * ScoreUnit[2] * Resolution * n, lmin),
          hi |-> -Floor((-c) * ScoreUnit[2] * Resolution * n, lmax),
          loinf |-> lmin = 0, hiinf |-> FALSE]

\* one bin's share c * (n / lambda - 1) of a directional derivative of the
\* log-likelihood  sum_b n_b log(lambda_b) - lambda_b, bounded over all rates
\* between lmin and lmax; c in hundredths, the bounds in ScoreUnit
BinSlope(c, n, lmin, lmax) ==
    LET norm == c * (ScoreUnit[2] \div 100)
    IN  IF c = 0 THEN [lo |-> 0, hi |-> 0, loinf |-> FALSE, hiinf |-> FALSE]
        ELSE IF n = 0 THEN [lo |-> -norm, hi |-> -norm, loinf |-> FALSE, hiinf |-> FALSE]
        ELSE IF c > 0
        THEN [lo |-> Floor(c * ScoreUnit[2] * Resolution * n, lmax) - norm,
              hi |-> IF lmin = 0 THEN 0
                     ELSE Ceil(c * ScoreUnit[2] * Resolution * n, lmin) - norm,
              loinf |-> FALSE, hiinf |-> lmin = 0]
        ELSE [lo |-> IF lmin = 0 THEN 0
                     ELSE -Ceil((-c) * ScoreUnit[2] * Resolution * n, lmin) - norm,
              hi |-> -Floor((-c) * ScoreUnit[2] * Resolution * n, lmax) - norm,
              loinf |-> lmin = 0, hiinf |-> FALSE]

\* bounds of the derivative along d over the cell [i, i+1] x [j, j+1]: every
\* rate grows with both factors, so it lies between its values at the lower
\* left and the upper right corner
SlopeBounds(sp, obs, d, i, j) ==
    LET nb == Len(sp[1].samples[1].data)
        term == [b \in 1..nb |->
                    BinSlope(d[1] * Hundredths(sp[1].samples[1].data[b])
                               + d[2] * Hundredths(sp[1].samples[2].data[b]),
                             Count(obs[b]),
                             GridRate(sp, i, j, b), GridRate(sp, i + 1, j + 1, b))]
    IN  [lo |-> SumOver(nb, LAMBDA b : term[b].lo),
         hi |-> SumOver(nb, LAMBDA b : term[b].hi),
         loinf |-> \E b \in 1..nb : term[b].loinf,
         hiinf |-> \E b \in 1..nb : term[b].hiinf]

\* the likelihood rises (sgn = 1) or falls (sgn = -1) along d everywhere in the cell
DefiniteSlope(sp, obs, d, sgn, i, j) ==
    LET s == SlopeBounds(sp, obs, d, i, j)
    IN  IF sgn = 1 THEN ~s.loinf /\ s.lo > 0 ELSE ~s.hiinf /\ s.hi < 0

InsideFitRange(i, j) ==
    /\ FitLower <= i /\ i < FitUpper
    /\ FitLower <= j /\ j < FitUpper

CellIndex(q) == (q[1] * Resolution) \div q[2]

\* the optimiser can leave the cell at the current iterate along sgn * d
CanStep(d, sgn) ==
    LET i == CellIndex(parameters[1])
        j == CellIndex(parameters[2])
    IN  /\ InsideFitRange(i + sgn * d[1], j + sgn * d[2])
        /\ DefiniteSlope(spec, observed, d, sgn, i, j)

InitFit ==
    /\ spec = SpecTwoNorm
    /\ config = Model(spec)
    /\ actualdata = <<>>
    /\ auxexpected = <<>>
    /\ interp = NoInterpolation
    /\ observed = data
    /\ out = NoCall
    /\ workers = <<>>
    /\ hypo = NoTest
    /\ tables = NoTables
    /\ widgets = NoWidgets
    /\ \E i, j \in FitLower..(FitUpper - 1) :
          parameters = <<Q(i, Resolution), Q(j, Resolution)>>

\* one iteration of the minimiser of -logpdf: a move to the next cell along
\* a direction in which the likelihood rises throughout the present cell
FitStep(d, sgn) ==
    /\ out = NoCall
    /\ CanStep(d, sgn)
    /\ parameters' = <<QAdd(parameters[1], Q(sgn * d[1], Resolution)),
                       QAdd(parameters[2], Q(sgn * d[2], Resolution))>>
    /\ UNCHANGED <<spec, config, actualdata, auxexpected, interp, observed, out,
                   workers, hypo, tables, widgets>>

\* mu1, mu2 = pyhf.infer.mle.fit(data, model): the minimiser stops in a cell
\* that no direction leads out of; the returned values lie in that cell
FitReturns ==
    /\ out = NoCall
    /\ \A d \in FitDirections : \A sgn \in {1, -1} : ~CanStep(d, sgn)
    /\ out' = [op |-> "fit", result |-> parameters]
    /\ UNCHANGED <<spec, config, parameters, actualdata, auxexpected, interp,
                   observed, workers, hypo, tables, widgets>>

NextFit ==
    \/ \E d \in FitDirections : \E sgn \in {1, -1} : FitStep(d, sgn)
    \/ FitReturns

SpecFit == InitFit /\ [][NextFit]_vars

\* ------------------------------------------------------------------
\* Hypothesis tests on a single-bin model
\* ------------------------------------------------------------------

\* the largest observed count tried
MaxObserved == 12

\* mu_scan = np.linspace(0, 3, 30), followed on a grid of half units
mu_scan == {Q(k, 2) : k \in 0..6}

TestStats == {"q", "qtilde"}

\* the width of the estimate of mu, in the asymptotic approximation
Widths == {Q(1, 2), QInt(1)}

SignalYield(sp) == sp[1].samples[1].data[1]
BackgroundYield(sp) == sp[1].samples[2].data[1]

QMax(a, b) == IF QLe(a, b) THEN b ELSE a

\* the unconditional fit of a single bin: mu_hat * s + b = n
MuHat(sp, obs) == QDiv(QSub(obs[1], BackgroundYield(sp)), SignalYield(sp))

\* twice the negative log-likelihood above its minimum at mu_hat, in the
\* asymptotic (parabolic) approximation of arXiv:1007.1727
TwiceNll(mu, muhat, sigma) == QPow(QDiv(QSub(mu, muhat), sigma), 2)

\* -2 ln lambda(mu) = -2 ln [L(mu) / L(best)]
MinusTwoLogLambda(mu, best, muhat, sigma) ==
    QSub(TwiceNll(mu, muhat, sigma), TwiceNll(best, muhat, sigma))

\* the estimate in the denominator: qtilde keeps it inside mu >= 0
BestFit(test_stat, muhat) ==
    IF test_stat = "qtilde" THEN QMax(muhat, QInt(0)) ELSE muhat

\* variant: the case distinction as the notebook's text writes it
TestStatisticUpward(test_stat, mu, muhat, sigma) ==
    IF QLt(BestFit(test_stat, muhat), mu) THEN QInt(0)
    ELSE MinusTwoLogLambda(mu, BestFit(test_stat, muhat), muhat, sigma)

\* variant: qtilde without the floor on mu_hat
TestStatisticNoFloor(test_stat, mu, muhat, sigma) ==
    IF QLt(mu, muhat) THEN QInt(0)
    ELSE MinusTwoLogLambda(mu, muhat, muhat, sigma)

\* q_mu / qtilde_mu: one-sided, an estimate above the tested mu is no
\* evidence against it
TestStatistic(test_stat, mu, muhat, sigma) ==
    IF QLt(mu, BestFit(test_stat, muhat)) THEN QInt(0)
    ELSE MinusTwoLogLambda(mu, BestFit(test_stat, muhat), muhat, sigma)

\* variant: the Asimov statistic taken at the nominal signal strength 1
SqrtAsimovNominal(mu, sigma) == QDiv(QInt(1), sigma)

\* sqrt(q_A): the statistic of the background-only Asimov data, mu_hat = 0
SqrtAsimov(mu, sigma) == QDiv(mu, sigma)

\* variant: the background-only distribution shifted the wrong way
TailArgumentsShifted(test_stat, mu, muhat, sigma) ==
    LET q == TestStatistic(test_stat, mu, muhat, sigma)
        sqrtq == IF q = QInt(0) THEN QInt(0)
                 ELSE QDiv(QSub(mu, BestFit(test_stat, muhat)), sigma)
    IN  [sb |-> sqrtq, b |-> QAdd(sqrtq, SqrtAsimov(mu, sigma))]

\* the arguments z of the two tail probabilities 1 - Phi(z):
\* p(s+b) at teststat + sqrt(q_A) and p(b) at teststat
TailArguments(test_stat, mu, muhat, sigma) ==
    LET q == TestStatistic(test_stat, mu, muhat, sigma)
        sqrtqA == SqrtAsimov(mu, sigma)
        qA == QPow(sqrtqA, 2)
        sqrtq == IF q = QInt(0) THEN QInt(0)
                 ELSE QDiv(QSub(mu, BestFit(test_stat, muhat)), sigma)
    IN  IF test_stat = "q" \/ QLe(q, qA)
        THEN [sb |-> sqrtq, b |-> QSub(sqrtq, sqrtqA)]
        ELSE [sb |-> QDiv(QAdd(q, qA), QMul(QInt(2), sqrtqA)),
              b |-> QDiv(QSub(q, qA), QMul(QInt(2), sqrtqA))]

\* CLs = p(s+b) / p(b) = (1 - Phi(z.sb)) / (1 - Phi(z.b)); the tail
\* probability is positive and strictly decreasing, so the ratio is 1 for
\* equal arguments, inside (0, 1) for z.sb > z.b and above 1 otherwise
CLsOf(z) ==
    IF z.sb = z.b THEN "one"
    ELSE IF QLt(z.b, z.sb) THEN "inside (0,1)"
    ELSE "above one"

InitHypo ==
    /\ spec \in CutCountSpecs
    /\ config = Model(spec)
    /\ parameters = SuggestedInit(config.paramsets)
    /\ actualdata = <<>>
    /\ auxexpected = <<>>
    /\ interp = NoInterpolation
    /\ \E n \in 0..MaxObserved : observed = <<QInt(n)>> \o config.auxdata
    /\ out = NoCall
    /\ workers = <<>>
    /\ hypo = NoTest
    /\ tables = NoTables
    /\ widgets = NoWidgets

\* pyhf.infer.hypotest(mu, data, model, test_stat=...)
Hypotest(test_stat, mu, sigma) ==
    /\ hypo = NoTest
    /\ LET muhat == MuHat(spec, observed)
           z == TailArguments(test_stat, mu, muhat, sigma)
       IN  hypo' = [kind |-> "hypotest", test_stat |-> test_stat, mu |-> mu,
                    muhat |-> muhat, sigma |-> sigma,
                    teststat |-> TestStatistic(test_stat, mu, muhat, sigma),
                    tails |-> z, CLs |-> CLsOf(z)]
    /\ UNCHANGED <<spec, config, parameters, actualdata, auxexpected, interp,
                   observed, out, workers, tables, widgets>>

\* the result is read and the next test can start
NextTest ==
    /\ hypo # NoTest
    /\ hypo' = NoTest
    /\ UNCHANGED <<spec, config, parameters, actualdata, auxexpected, interp,
                   observed, out, workers, tables, widgets>>

NextHypo ==
    \/ \E test_stat \in TestStats : \E mu \in mu_scan : \E sigma \in Widths :
          Hypotest(test_stat, mu, sigma)
    \/ NextTest

SpecHypo == InitHypo /\ [][NextHypo]_vars

\* ------------------------------------------------------------------
\* The scan of CLs over mu and the upper limit
\* ------------------------------------------------------------------

\* -ln(1 - Phi(z)) in units of 10^-4 at z = -6, -5.75, ..., 10: the tail
\* probability of the standard normal distribution of the asymptotic
\* test-statistic distributions
NegLogTailTable ==
    <<0, 0, 0, 0, 0, 0, 0, 0,
      0, 1, 2, 6, 14, 30, 62, 123,
      230, 409, 691, 1117, 1728, 2570, 3689, 5130,
      6931, 9131, 11759, 14844, 18410, 22476, 27059, 32174,
      37832, 44043, 50816, 58159, 66077, 74576, 83661, 93334,
      103601, 114463, 125924, 137986, 150650, 163919, 177794, 192276,
      207368, 223069, 239381, 256306, 273843, 291994, 310759, 330139,
      350134, 370746, 391974, 413819, 436281, 459362, 483060, 507377,
      532313>>

TableIndex(z) == QMul(QSub(z, QInt(-6)), QInt(4))[1] + 1

\* the arguments the table covers: quarter units up to 10
Tabulated(z) ==
    /\ QMul(z, QInt(4))[2] = 1
    /\ TableIndex(z) <= Len(NegLogTailTable)

\* below z = -6 the tail probability is 1 to nine digits
NegLogTail(z) ==
    IF TableIndex(z) < 1 THEN 0 ELSE NegLogTailTable[TableIndex(z)]

\* variant: the ratio p(b) / p(s+b)
NegLogCLsInverted(z) == NegLogTail(z.b) - NegLogTail(z.sb)

\* -ln CLs = -ln p(s+b) + ln p(b), in units of 10^-4
NegLogCLs(z) == NegLogTail(z.sb) - NegLogTail(z.b)

\* -ln(exclusion_level) for exclusion_level = 0.05, in units of 10^-4
NegLogExclusionLevel == 29957

\* CLs < exclusion_level
Excluded(cls) == cls > NegLogExclusionLevel

\* variant: only the bounds at one sigma
NSigmaOneSigma == <<-1, 0, 1>>

\* the bands of the expected set, in the order hypotest returns them
NSigma == <<-2, -1, 0, 1, 2>>

\* variant: the background-only quantile taken at +n sigma
ExpectedArgumentsAscending(nsigma, mu, sigma) ==
    [sb |-> QAdd(QInt(nsigma), SqrtAsimov(mu, sigma)), b |-> QInt(nsigma)]

\* the tail arguments of the expected CLs of band nsigma: the test
\* statistic is the background-only quantile at -nsigma
ExpectedArguments(nsigma, mu, sigma) ==
    [sb |-> QAdd(QInt(-nsigma), SqrtAsimov(mu, sigma)), b |-> QInt(-nsigma)]

\* pyhf.infer.hypotest(mu, data, model, return_expected_set=True,
\* test_stat=...): the observed CLs and the expected band
HypotestExpectedSet(test_stat, mu, muhat, sigma) ==
    LET z == TailArguments(test_stat, mu, muhat, sigma)
        zs == [k \in 1..Len(NSigma) |-> ExpectedArguments(NSigma[k], mu, sigma)]
    IN  [mu |-> mu, tails |-> z, CLs |-> NegLogCLs(z), expected_tails |-> zs,
         expected |-> [k \in 1..Len(NSigma) |-> NegLogCLs(zs[k])]]

\* mu_scan = np.linspace(0, 3, 30), in scan order, followed on a grid of
\* quarter units
MuScanPoints == [k \in 1..13 |-> Q(k - 1, 4)]

\* the estimates the table covers for every scan point and width
ScanObservations(sp) ==
    {n \in 0..MaxObserved :
        LET muhat == MuHat(sp, <<QInt(n)>>)
        IN  /\ QMul(muhat, QInt(4))[2] = 1
            /\ QLe(QInt(-1), muhat)
            /\ QLe(muhat, QInt(3))}

NoLimit == [found |-> FALSE, lo |-> QInt(0), hi |-> QInt(0)]

\* variant: the last scan point that is excluded
CrossingLast(mus, cls) ==
    LET ex == {i \in 1..Len(cls) : Excluded(cls[i])}
    IN  IF ex = {} \/ ex = {1} THEN [found |-> FALSE, lo |-> mus[Len(mus)], hi |-> mus[Len(mus)]]
        ELSE LET i == CHOOSE i \in ex : \A j \in ex : j <= i
             IN  [found |-> TRUE, lo |-> mus[i - 1], hi |-> mus[i]]

\* the two neighbouring scan points between which CLs crosses the
\* exclusion level
Crossing(mus, cls) ==
    LET ex == {i \in 1..Len(cls) : Excluded(cls[i])}
    IN  IF ex = {} THEN [found |-> FALSE, lo |-> mus[Len(mus)], hi |-> mus[Len(mus)]]
        ELSE LET i == CHOOSE i \in ex : \A j \in ex : i <= j
             IN  [found |-> TRUE, lo |-> mus[i - 1], hi |-> mus[i]]

\* an upper bound of ln x for x > 0: the [2/1] Pade approximant at 1,
\* u (6 + u) / (6 + 4 u) with u = x - 1, whose excess over ln x has the
\* derivative 4 u^3 / ((6 + 4 u)^2 (1 + u))
LnUpper(x) ==
    LET u == QSub(x, QInt(1))
    IN  QDiv(QMul(u, QAdd(QInt(6), u)), QAdd(QInt(6), QMul(QInt(4), u)))

LnLower(x) == QSub(QInt(0), LnUpper(QDiv(QInt(1), x)))

\* the background-only Asimov data of a cut-and-count model: the count b
\* and the auxiliary measurement (b / delta_b)^2
AsimovAux(sp) == ShapeSysFactors(sp, "uncorr_bkguncrt")[1]

\* -ln L(mu, gamma) + ln L(0, 1) on the Asimov data, the logarithms
\* replaced by the bound Ln: two Poisson terms, the count at rate
\* mu s + gamma b and the auxiliary measurement at rate gamma (b / delta_b)^2
AsimovDeviance(sp, mu, gamma, Ln(_)) ==
    LET s == SignalYield(sp)
        b == BackgroundYield(sp)
        a == AsimovAux(sp)
        rate == QAdd(QMul(mu, s), QMul(gamma, b))
    IN  QAdd(QSub(QSub(rate, b), QMul(b, Ln(QDiv(rate, b)))),
             QSub(QMul(a, QSub(gamma, QInt(1))), QMul(a, Ln(gamma))))

\* its derivative in gamma
AsimovSlope(sp, mu, gamma) ==
    LET s == SignalYield(sp)
        b == BackgroundYield(sp)
        a == AsimovAux(sp)
        rate == QAdd(QMul(mu, s), QMul(gamma, b))
    IN  QAdd(QSub(b, QDiv(QMul(b, b), rate)), QSub(a, QDiv(a, gamma)))

\* the values of gamma tried by the conditional fit, in tenths
GammaGrid == {Q(k, 10) : k \in 1..10}

\* variant: the profiled background factor kept at its nominal value 1
AsimovStatisticFixed(sp, mu) ==
    [lo |-> QMul(QInt(2), AsimovDeviance(sp, mu, QInt(1), LnUpper)),
     up |-> QMul(QInt(2), AsimovDeviance(sp, mu, QInt(1), LnLower))]

\* q_A(mu) = 2 min over gamma of the deviance, enclosed between two
\* rationals: the deviance is convex in gamma, so with g the last grid
\* value where it still falls the minimum lies within a tenth above g, at
\* least deviance(g) + slope(g) / 10 and at most deviance(g)
AsimovStatistic(sp, mu) ==
    LET falling == {g \in GammaGrid : QLe(AsimovSlope(sp, mu, g), QInt(0))}
        g == CHOOSE g \in falling : \A h \in falling : QLe(h, g)
    IN  [lo |-> QMul(QInt(2), QAdd(AsimovDeviance(sp, mu, g, LnUpper),
                                   QMul(AsimovSlope(sp, mu, g), Q(1, 10)))),
         up |-> QMul(QInt(2), AsimovDeviance(sp, mu, g, LnLower))]

InitScan ==
    /\ spec \in CutCountSpecs
    /\ config = Model(spec)
    /\ parameters = SuggestedInit(config.paramsets)
    /\ actualdata = <<>>
    /\ auxexpected = <<>>
    /\ interp = NoInterpolation
    /\ \E n \in ScanObservations(spec) : observed = <<QInt(n)>> \o config.auxdata
    /\ out = NoCall
    /\ workers = <<>>
    /\ hypo = NoTest
    /\ tables = NoTables
    /\ widgets = NoWidgets

\* results = [...]: the list comprehension starts
StartScan(test_stat, sigma) ==
    /\ hypo = NoTest
    /\ hypo' = [kind |-> "scan", test_stat |-> test_stat, sigma |-> sigma,
                muhat |-> MuHat(spec, observed), results |-> <<>>,
                obs_limit |-> NoLimit, exp_limits |-> <<>>]
    /\ UNCHANGED <<spec, config, parameters, actualdata, auxexpected, interp,
                   observed, out, workers, tables, widgets>>

\* hypotest(mu, ...) for the next mu in mu_scan
ScanPoint ==
    /\ hypo # NoTest
    /\ hypo.kind = "scan"
    /\ Len(hypo.results) < Len(MuScanPoints)
    /\ LET mu == MuScanPoints[Len(hypo.results) + 1]
       IN  hypo' = [hypo EXCEPT !.results =
                       Append(@, HypotestExpectedSet(hypo.test_stat, mu,
                                                     hypo.muhat, hypo.sigma))]
    /\ UNCHANGED <<spec, config, parameters, actualdata, auxexpected, interp,
                   observed, out, workers, tables, widgets>>

\* pyhf.infer.intervals.upper_limits.upper_limit(data, model): the observed
\* limit and the five expected limits
UpperLimit ==
    /\ hypo # NoTest
    /\ hypo.kind = "scan"
    /\ Len(hypo.results) = Len(MuScanPoints)
    /\ hypo.exp_limits = <<>>
    /\ LET rows == hypo.results
           mus == [i \in 1..Len(rows) |-> rows[i].mu]
       IN  hypo' = [hypo EXCEPT
                       !.obs_limit = Crossing(mus, [i \in 1..Len(rows) |-> rows[i].CLs]),
                       !.exp_limits = [k \in 1..Len(NSigma) |->
                           Crossing(mus, [i \in 1..Len(rows) |-> rows[i].expected[k]])]]
    /\ UNCHANGED <<spec, config, parameters, actualdata, auxexpected, interp,
                   observed, out, workers, tables, widgets>>

NextScan ==
    \/ \E test_stat \in TestStats : \E sigma \in Widths : StartScan(test_stat, sigma)
    \/ ScanPoint
    \/ UpperLimit
    \/ NextTest

SpecScan == InitScan /\ [][NextScan]_vars

\* ------------------------------------------------------------------
\* The specification as a JSON document
\* ------------------------------------------------------------------
JNull == [json |-> "null"]
JNumber(text) == [json |-> "number", text |-> text]
JString(s) == [json |-> "string", s |-> s]
JArray(items) == [json |-> "array", items |-> items]
\* members: the <<key, value>> pairs in the order they are written
JObject(members) == [json |-> "object", members |-> members]

RECURSIVE TenTo(_)
TenTo(k) == IF k = 0 THEN 1 ELSE 10 * TenTo(k - 1)

\* the least number of decimal places that writes q exactly, at most 6
RECURSIVE DecimalPlaces(_, _)
DecimalPlaces(q, k) ==
    IF k = 6 \/ (q[1] * TenTo(k)) % q[2] = 0 THEN k ELSE DecimalPlaces(q, k + 1)

\* variant: every number written with one decimal place, "%.1f"
NumberTextOnePlace(q) ==
    [digits |-> (q[1] * 10) \div q[2], places |-> 1]

\* the decimal text of a number: its digits and the position of the point
NumberText(q) ==
    LET k == DecimalPlaces(q, 0)
    IN  [digits |-> (q[1] * TenTo(k)) \div q[2], places |-> k]

\* float(text)
ParseNumber(text) == Q(text.digits, TenTo(text.places))

JNumbers(u) == JArray([i \in 1..Len(u) |-> JNumber(NumberText(u[i]))])

\* the keys of an object in sorted order (sort_keys=True) or as inserted
\* the keys of the documents, in sorted order
AllJsonKeys ==
    <<"channels", "data", "hi", "hi_data", "lo", "lo_data", "modifiers", "name",
      "samples", "type">>

RECURSIVE SortMembers(_)
SortMembers(members) ==
    IF members = <<>> THEN <<>>
    ELSE LET keys == {members[i][1] : i \in 1..Len(members)}
             least == CHOOSE i \in 1..Len(members) :
                         \A j \in 1..Len(members) :
                             \/ i = j
                             \/ \E p \in 1..Len(AllJsonKeys) :
                                   /\ AllJsonKeys[p] = members[i][1]
                                   /\ \A r \in 1..p : AllJsonKeys[r] # members[j][1]
         IN  <<members[least]>> \o
             SortMembers(SelectSeq(members, LAMBDA kv : kv # members[least]))

JsonObject(members, sort_keys) ==
    JObject(IF sort_keys THEN SortMembers(members) ELSE members)

\* the "data" entry of a modifier
JsonModifierData(mod, sort_keys) ==
    CASE mod.type = "normfactor" -> JNull
      [] mod.type \in {"shapesys", "staterror"} -> JNumbers(mod.data)
      [] mod.type = "histosys" ->
            JsonObject(<<<<"hi_data", JNumbers(mod.hi)>>,
                         <<"lo_data", JNumbers(mod.lo)>>>>, sort_keys)
      [] mod.type = "normsys" ->
            JsonObject(<<<<"hi", JNumber(NumberText(mod.hi[1]))>>,
                         <<"lo", JNumber(NumberText(mod.lo[1]))>>>>, sort_keys)

\* json.dumps(model.spec, sort_keys=...): the document of a specification
JsonDumps(sp, sort_keys) ==
    JsonObject(<<<<"channels",
        JArray([c \in 1..Len(sp) |->
            JsonObject(<<
                <<"name", JString(sp[c].name)>>,
                <<"samples", JArray([k \in 1..Len(sp[c].samples) |->
                    LET sam == sp[c].samples[k]
                    IN  JsonObject(<<
                            <<"name", JString(sam.name)>>,
                            <<"data", JNumbers(sam.data)>>,
                            <<"modifiers", JArray([m \in 1..Len(sam.modifiers) |->
                                JsonObject(<<
                                    <<"name", JString(sam.modifiers[m].name)>>,
                                    <<"type", JString(sam.modifiers[m].type)>>,
                                    <<"data", JsonModifierData(sam.modifiers[m], sort_keys)>>
                                >>, sort_keys)])>>
                        >>, sort_keys)])>>
            >>, sort_keys)])>>>>, sort_keys)

\* obj[key]
Member(obj, key) ==
    obj.members[CHOOSE i \in 1..Len(obj.members) : obj.members[i][1] = key][2]

Numbers(arr) == [i \in 1..Len(arr.items) |-> ParseNumber(arr.items[i].text)]

\* the modifier declared by one entry of "modifiers"
LoadModifier(obj) ==
    LET name == Member(obj, "name").s
        type == Member(obj, "type").s
        d == Member(obj, "data")
    IN  CASE type = "normfactor" -> NormFactor(name)
          [] type = "shapesys" -> ShapeSys(name, Numbers(d))
          [] type = "staterror" -> StatError(name, Numbers(d))
          [] type = "histosys" ->
                HistoSys(name, Numbers(Member(d, "lo_data")), Numbers(Member(d, "hi_data")))
          [] type = "normsys" ->
                NormSys(name, ParseNumber(Member(d, "lo").text),
                              ParseNumber(Member(d, "hi").text))

\* json.loads(text): the specification a document declares
JsonLoads(doc) ==
    LET channels == Member(doc, "channels").items
    IN  [c \in 1..Len(channels) |->
            LET samples == Member(channels[c], "samples").items
            IN  Channel(Member(channels[c], "name").s,
                    [k \in 1..Len(samples) |->
                        LET mods == Member(samples[k], "modifiers").items
                        IN  Sample(Member(samples[k], "name").s,
                                   Numbers(Member(samples[k], "data")),
                                   [m \in 1..Len(mods) |-> LoadModifier(mods[m])])])]

InitRoundTrip ==
    /\ spec \in CallSpecs
    /\ config = Model(spec)
    /\ parameters = SuggestedInit(config.paramsets)
    /\ actualdata = <<>>
    /\ auxexpected = <<>>
    /\ interp = NoInterpolation
    /\ Idle

\* print(json.dumps(model.spec, indent=2)) / cabinetry.workspace.save(spec, path)
Dumps(sort_keys) ==
    /\ out.op # "json.dumps"
    /\ out' = [op |-> "json.dumps", result |-> JsonDumps(spec, sort_keys)]
    /\ UNCHANGED <<spec, config, parameters, actualdata, auxexpected, interp,
                   observed, workers, hypo, tables, widgets>>

\* pyhf.Model(json.loads(text)): the model is rebuilt from the document;
\* the call keeps what the model built before showed
Rebuild ==
    /\ out.op = "json.dumps"
    /\ spec' = JsonLoads(out.result)
    /\ config' = Model(spec')
    /\ out' = [op |-> "rebuilt",
               result |-> [par_names |-> ParNames(config.paramsets),
                           suggested_init |-> SuggestedInit(config.paramsets),
                           expected_data |-> ExpectedData(spec, config, parameters)]]
    /\ UNCHANGED <<parameters, actualdata, auxexpected, interp, observed, workers, hypo, tables, widgets>>

NextRoundTrip ==
    \/ \E i \in 1..config.npars :
         \E v \in SlotValues(spec, config, i) \cup {SuggestedInit(config.paramsets)[i]} :
            SetParameter(i, v)
    \/ \E sort_keys \in BOOLEAN : Dumps(sort_keys)
    \/ Rebuild

SpecRoundTrip == InitRoundTrip /\ [][NextRoundTrip]_vars

\* ------------------------------------------------------------------
\* The workspace of the B -> K pi notebook: the tracking-efficiency
\* systematic built by cabinetry and the PID systematics added by hand
\* ------------------------------------------------------------------

\* the largest number of rows of pid_systematics.csv tried
MaxRows == 2

\* nominal templates of the signal region (two bins) and the templates of
\* the rerun reconstruction
TrackingNominals == {<<QInt(4), QInt(6)>>, <<QInt(10), QInt(10)>>, <<QInt(3), QInt(9)>>}
TrackingModifieds == {<<QInt(3), QInt(6)>>, <<QInt(5), QInt(5)>>, <<QInt(12), QInt(9)>>}
QqbarNominal == <<QInt(8), QInt(2)>>

PidTypes == {"u", "c1", "c2"}
PidVariations == {Q(1, 10), Q(1, 4)}
PidSamples == <<"signal", "qqbar">>

\* the tables pid_systematics.csv can hold: a type per row and, per sample
\* and bin, a relative variation
PidTables ==
    UNION {[1..n -> [type : PidTypes,
                     signal : {<<v, w>> : v, w \in PidVariations} \ {<<v, v>> : v \in PidVariations},
                     qqbar : {<<Q(1, 5), Q(1, 20)>>}]] : n \in 1..MaxRows}

\* variant: the template of the rerun kept at its own normalisation
HistoYieldUpUnscaled(nominal, modified) == modified

\* sum(tracking_modified) / sum(tracking_nominal)
NormEffectUp(nominal, modified) == QDiv(QSum(modified), QSum(nominal))

\* (2 * sum(tracking_nominal) - sum(tracking_modified)) / sum(tracking_nominal)
NormEffectDown(nominal, modified) ==
    QDiv(QSub(QMul(QInt(2), QSum(nominal)), QSum(modified)), QSum(nominal))

\* tracking_modified / scale
HistoYieldUp(nominal, modified) ==
    [i \in 1..Len(modified) |-> QDiv(modified[i], NormEffectUp(nominal, modified))]

\* 2 * tracking_nominal - tracking_modified / scale
HistoYieldDown(nominal, modified) ==
    [i \in 1..Len(nominal) |->
        QSub(QMul(QInt(2), nominal[i]), HistoYieldUp(nominal, modified)[i])]

\* the modifiers of a NormPlusShape systematic with a symmetrised Down
NormPlusShape(name, nominal, modified) ==
    <<NormSys(name, NormEffectDown(nominal, modified), NormEffectUp(nominal, modified)),
      HistoSys(name, HistoYieldDown(nominal, modified), HistoYieldUp(nominal, modified))>>

\* variant: an uncorrelated row added as a shapesys
PidModifierShapeSys(type, yields, variation) ==
    IF type = "u" THEN ShapeSys("pid_sys_" \o type, AbsUnc(variation))
    ELSE HistoSys("pid_sys_" \o type,
            [i \in 1..Len(yields) |-> QMul(yields[i], QSub(QInt(1), variation[i]))],
            [i \in 1..Len(yields) |-> QMul(yields[i], QAdd(QInt(1), variation[i]))])

\* the modifier one row of pid_sys adds to one sample
PidModifier(type, yields, variation) ==
    IF type = "u" THEN StatError("pid_sys_" \o type, AbsUnc(variation))
    ELSE HistoSys("pid_sys_" \o type,
            [i \in 1..Len(yields) |-> QMul(yields[i], QSub(QInt(1), variation[i]))],
            [i \in 1..Len(yields) |-> QMul(yields[i], QAdd(QInt(1), variation[i]))])

\* var.filter(regex=rf'{name}*'): the columns of a row that belong to a sample
PidColumns(var, name) == IF name = "signal" THEN var.signal ELSE var.qqbar

InitWorkspace ==
    /\ spec = <<>>
    /\ config = NoModel
    /\ parameters = <<>>
    /\ actualdata = <<>>
    /\ auxexpected = <<>>
    /\ interp = NoInterpolation
    /\ observed = <<>>
    /\ out = NoCall
    /\ workers = <<>>
    /\ hypo = NoTest
    /\ widgets = NoWidgets
    /\ \E nominal \in TrackingNominals : \E modified \in TrackingModifieds :
       \E pid_sys \in PidTables :
          tables = [kind |-> "b2kpi", tracking_nominal |-> nominal,
                    tracking_modified |-> modified, pid_sys |-> pid_sys,
                    row |-> 0, sam |-> 0, built |-> <<>>]

\* spec = cabinetry.workspace.build(config)
WorkspaceBuild ==
    /\ tables.kind = "b2kpi"
    /\ spec = <<>>
    /\ spec' =
          <<Channel("signal_region",
              <<Sample("signal", tables.tracking_nominal,
                    <<StatError("staterror_signal_region", NpSqrt(tables.tracking_nominal)),
                      NormFactor("mu")>>
                    \o NormPlusShape("TrackingEfficiency_signal",
                                     tables.tracking_nominal, tables.tracking_modified)),
                Sample("qqbar", QqbarNominal,
                    <<StatError("staterror_signal_region", NpSqrt(QqbarNominal)),
                      NormSys("norm_qqbar", Q(1, 2), Q(3, 2))>>)>>)>>
    /\ tables' = [tables EXCEPT !.built = spec']
    /\ UNCHANGED <<config, parameters, actualdata, auxexpected, interp, observed,
                   out, workers, hypo, widgets>>

\* for _, var in pid_sys.iterrows(): the loop over the variations starts
PidLoopStart ==
    /\ tables.kind = "b2kpi"
    /\ spec # <<>>
    /\ tables.row = 0
    /\ tables' = [tables EXCEPT !.row = 1, !.sam = 1]
    /\ UNCHANGED <<spec, config, parameters, actualdata, auxexpected, interp,
                   observed, out, workers, hypo, widgets>>

\* the body of the inner loop for one row and one sample of channel 0:
\* sam['modifiers'].append(...)
PidLoopBody ==
    /\ tables.kind = "b2kpi"
    /\ tables.row \in 1..Len(tables.pid_sys)
    /\ LET var == tables.pid_sys[tables.row]
           sam == spec[1].samples[tables.sam]
           variation == PidColumns(var, sam.name)
           added == PidModifier(var.type, sam.data, variation)
       IN  spec' = [spec EXCEPT ![1].samples[tables.sam].modifiers = Append(@, added)]
    /\ tables' = IF tables.sam < Len(spec[1].samples)
                 THEN [tables EXCEPT !.sam = @ + 1]
                 ELSE [tables EXCEPT !.row = @ + 1, !.sam = 1]
    /\ UNCHANGED <<config, parameters, actualdata, auxexpected, interp, observed,
                   out, workers, hypo, widgets>>

NextWorkspace ==
    \/ WorkspaceBuild
    \/ PidLoopStart
    \/ PidLoopBody

SpecWorkspace == InitWorkspace /\ [][NextWorkspace]_vars

\* ------------------------------------------------------------------
\* The interactive plots: sliders, the plot callback and the Fit button
\* ------------------------------------------------------------------
WidgetKinds == {"uncorr", "stat", "corr"}

\* the model each interactive plot shows
WidgetSpec(kind) ==
    CASE kind = "uncorr" -> SpecUncorr
      [] kind = "stat" -> SpecStat
      [] kind = "corr" -> SpecCorr

\* the keyword of a slider: "gamma1" .. "gamma10", or the name of another one
Gamma(i) == [key |-> "gamma", i |-> i]
Key(name) == [key |-> name, i |-> 0]

\* sliders_gamma = {f"gamma{i}": ... for i in range(1, 11)}
sliders_gamma == [i \in 1..10 |-> Gamma(i)]

\* the sliders of a widget in the order plot and fit go through them
WidgetSliders(kind) ==
    CASE kind = "uncorr" -> <<Key("mu")>> \o sliders_gamma
      [] kind = "stat" -> <<Key("mu1"), Key("mu2")>> \o sliders_gamma
      [] kind = "corr" -> <<Key("mu"), Key("alpha")>>

\* FloatSlider(value, min=..., max=...)
SliderMin(k) ==
    CASE k.key = "gamma" -> Q(1, 10)
      [] k.key = "alpha" -> QInt(-2)
      [] OTHER -> Q(1, 10)
SliderMax(k) ==
    CASE k.key = "gamma" -> QInt(2)
      [] k.key = "alpha" -> QInt(2)
      [] OTHER -> QInt(10)
SliderValue(k) == IF k.key = "alpha" THEN QInt(0) ELSE QInt(1)

\* slider.value = v: a bounded slider keeps its value inside [min, max]
Clamp(k, v) ==
    IF QLt(v, SliderMin(k)) THEN SliderMin(k)
    ELSE IF QLt(SliderMax(k), v) THEN SliderMax(k)
    ELSE v

\* the parameter a slider is labelled with and its component
SliderParameter(kind, k) ==
    CASE k.key = "gamma" ->
            [name |-> IF kind = "uncorr" THEN "uncorrelated_uncertainties"
                      ELSE "statistical_error",
             component |-> k.i]
      [] k.key \in {"mu", "mu1"} -> [name |-> "mu1", component |-> 1]
      [] OTHER -> [name |-> k.key, component |-> 1]

\* par_slice(name).start, counted from 0
ParSliceStart(cfg, name) == ParEntry(cfg, name).start - 1

\* variant: the staterror widget indexes like the shapesys widget
SliderIndexNoOffset(kind, cfg, k) ==
    CASE k.key = "gamma" -> k.i
      [] kind = "uncorr" -> 0
      [] k.key = "mu" -> ParSliceStart(cfg, "mu1")
      [] OTHER -> ParSliceStart(cfg, k.key)

\* the index of the parameter list that plot and fit use for a slider:
\* parameters[0] and i = int(k.replace("gamma", "")) in the shapesys widget,
\* par_slice(...).start and i + 1 in the staterror widget
SliderIndex(kind, cfg, k) ==
    CASE k.key = "gamma" -> IF kind = "stat" THEN k.i + 1 ELSE k.i
      [] kind = "uncorr" -> 0
      [] k.key = "mu" -> ParSliceStart(cfg, "mu1")
      [] OTHER -> ParSliceStart(cfg, k.key)

\* plot(**values): parameters = suggested_init(), then one assignment per
\* slider, in order
PlotParameters(kind, cfg, values) ==
    LET keys == WidgetSliders(kind)
        Written[n \in 0..Len(keys)] ==
            IF n = 0 THEN SuggestedInit(cfg.paramsets)
            ELSE [Written[n - 1] EXCEPT ![SliderIndex(kind, cfg, keys[n]) + 1] = values[n]]
    IN  Written[Len(keys)]

\* values a fit can return inside the suggested bounds (0, 10) of a
\* normfactor, (1e-10, 10) of a gamma and (-5, 5) of alpha
MuFits == {QInt(0), Q(3, 2), QInt(3)}
GammaFits == {Q(1, 20), Q(3, 2), QInt(3)}
AlphaFits == {QInt(-3), Q(1, 2), QInt(3)}

\* best-fit vectors in the model's own parameter order: any value for the
\* normfactors and alpha; the gammas share a value, except possibly the
\* first
BestFits(kind, cfg) ==
    IF kind = "corr"
    THEN {[q \in 1..cfg.npars |->
              IF q = ParEntry(cfg, "mu1").start THEN m ELSE a] :
              m \in MuFits, a \in AlphaFits}
    ELSE LET gname == SliderParameter(kind, Gamma(1)).name
             first == ParEntry(cfg, gname).start
             last == ParEntry(cfg, gname).stop
         IN  {[q \in 1..cfg.npars |->
                  IF q = ParEntry(cfg, "mu1").start THEN m[1]
                  ELSE IF q = first THEN g[1]
                  ELSE IF q > first /\ q <= last THEN g[2]
                  ELSE m[2]] :
                  m \in (IF kind = "stat" THEN MuFits \X MuFits
                         ELSE MuFits \X {QInt(1)}),
                  g \in GammaFits \X GammaFits}

\* m * 10^e <= v and v <= m * 10^e for a bound in scientific notation; a
\* negative exponent is tested with at most six digits, which only makes
\* the test stricter for a positive v
SciLe(s, v) ==
    IF s.exp >= 0 THEN QLe(QInt(SciInt(s)), v)
    ELSE /\ v[1] > 0 \/ s.mant <= 0
         /\ s.mant * v[2] <= v[1] * 10^(IF -s.exp > 6 THEN 6 ELSE -s.exp)
SciGe(s, v) ==
    IF s.exp >= 0 THEN QLe(v, QInt(SciInt(s)))
    ELSE v[1] * 10^(-s.exp) <= s.mant * v[2]

\* every component of pars lies inside model.config.suggested_bounds()
InsideSuggestedBounds(cfg, pars) ==
    \A q \in 1..cfg.npars :
        /\ SciLe(SuggestedBounds(cfg.paramsets)[q][1], pars[q])
        /\ SciGe(SuggestedBounds(cfg.paramsets)[q][2], pars[q])

\* the positions a user drags a slider to
SliderPositions(k) == {SliderMin(k), SliderValue(k), SliderMax(k)}

\* the sliders a user drags: the first three of the widget
DraggedSliders(kind) == 1..(IF Len(WidgetSliders(kind)) < 3 THEN Len(WidgetSliders(kind)) ELSE 3)

\* display(...): the plot is rendered once with the sliders' initial values
InitWidgets ==
    /\ \E kind \in WidgetKinds :
          /\ spec = WidgetSpec(kind)
          /\ config = Model(spec)
          /\ \E p \in BestFits(kind, config) :
                widgets = [kind |-> kind,
                           values |-> [n \in 1..Len(WidgetSliders(kind)) |->
                                          SliderValue(WidgetSliders(kind)[n])],
                           bestfit |-> p,
                           pc |-> 0,
                           fitted |-> FALSE]
          /\ parameters = PlotParameters(kind, config, widgets.values)
    /\ actualdata = ExpectedActualdata(spec, config, parameters)
    /\ auxexpected = <<>>
    /\ interp = NoInterpolation
    /\ observed = <<>>
    /\ out = NoCall
    /\ workers = <<>>
    /\ hypo = NoTest
    /\ tables = NoTables

\* interactive_output(plot, ...): a change of a slider runs plot with the
\* values of all sliders
Render(values) ==
    /\ parameters' = PlotParameters(widgets.kind, config, values)
    /\ actualdata' = ExpectedActualdata(spec, config, parameters')

\* the user drags slider n to v; the kernel handles it between callbacks
MoveSlider(n, v) ==
    /\ widgets.pc = 0
    /\ n \in DraggedSliders(widgets.kind)
    /\ v \in SliderPositions(WidgetSliders(widgets.kind)[n])
    /\ v # widgets.values[n]
    /\ widgets' = [widgets EXCEPT !.values[n] = v, !.fitted = FALSE]
    /\ Render(widgets'.values)
    /\ UNCHANGED <<spec, config, auxexpected, interp, observed, out, workers, hypo, tables>>

\* button.on_click(fit): parameters = pyhf.infer.mle.fit(...)
ClickFit ==
    /\ widgets.pc = 0
    /\ widgets' = [widgets EXCEPT !.pc = 1, !.fitted = FALSE]
    /\ UNCHANGED <<spec, config, parameters, actualdata, auxexpected, interp,
                   observed, out, workers, hypo, tables>>

\* slider.value = parameters[i], one slider after the other; a slider whose
\* value changes renders the plot
FitSetSlider ==
    /\ widgets.pc > 0
    /\ LET keys == WidgetSliders(widgets.kind)
           n == widgets.pc
           v == Clamp(keys[n], widgets.bestfit[SliderIndex(widgets.kind, config, keys[n]) + 1])
       IN  /\ widgets' = [widgets EXCEPT !.values[n] = v,
                                         !.pc = IF n = Len(keys) THEN 0 ELSE n + 1,
                                         !.fitted = (n = Len(keys))]
           /\ IF v # widgets.values[n] THEN Render(widgets'.values)
              ELSE UNCHANGED <<parameters, actualdata>>
    /\ UNCHANGED <<spec, config, auxexpected, interp, observed, out, workers, hypo, tables>>

NextWidgets ==
    \/ \E n \in 1..3, v \in {Q(1, 10), QInt(-2), QInt(0), QInt(1), QInt(2), QInt(10)} :
          MoveSlider(n, v)
    \/ ClickFit
    \/ FitSetSlider

SpecWidgets == InitWidgets /\ [][NextWidgets]_vars /\ WF_vars(FitSetSlider)

\* the number of bins of the main measurement
MainBins == SumOver(Len(spec), LAMBDA c : Bins(spec[c]))

\* C13: the parameter ordering is computed once at construction and is the
\* same in every later call: after any sequence of suggested_init,
\* suggested_bounds, expected_data, expected_auxdata, logpdf and fit calls,
\* par_names, par_slice, suggested_init, suggested_bounds and the fit result
\* index the parameters by that one ordering, and the slices of distinct
\* names are disjoint and cover all npars slots.
C13_FixedOrdering ==
    /\ config = Model(spec)
    /\ \A q \in 1..config.npars :
          Cardinality({e \in 1..Len(config.par_map) :
              config.par_map[e].start <= q /\ q <= config.par_map[e].stop}) = 1
    /\ \A e \in 1..Len(config.par_map) :
          /\ 1 <= config.par_map[e].start
          /\ config.par_map[e].start <= config.par_map[e].stop
          /\ config.par_map[e].stop <= config.npars
    /\ Len(config.par_names) = config.npars
    /\ \A q \in 1..config.npars :
          config.par_names[q] =
             <<SlotOwner(config, q).name,
               q - ParEntry(config, SlotOwner(config, q).name).start + 1>>
    /\ out.op = "suggested_init" =>
          /\ Len(out.result) = config.npars
          /\ \A n \in AllDeclaredNames :
                ParSlice(config, out.result, n) = ParamSet(config, n).inits
    /\ out.op = "suggested_bounds" =>
          /\ Len(out.result) = config.npars
          /\ \A n \in AllDeclaredNames :
                ParSlice(config, out.result, n) = ParamSet(config, n).bounds
    /\ out.op = "expected_data" => Len(out.result) = MainBins + Len(config.auxdata)
    /\ out.op = "fit" =>
          /\ Len(out.result) = config.npars
          /\ parameters = out.result
          /\ \A n \in AllDeclaredNames \ DeclaredNames("normfactor") :
                ParSlice(config, out.result, n) = ParamSet(config, n).inits
          /\ spec \in {SpecTwoNorm, SpecStat} =>
                \A b \in 1..Len(hist1) :
                   observed[b] =
                      QAdd(QMul(out.result[ParEntry(config, "mu1").start], hist1[b]),
                           QMul(out.result[ParEntry(config, "mu2").start], hist2[b]))

C13_Witness ==
    /\ spec = SpecStat
    /\ out.op = "fit"
    /\ out.result[ParEntry(config, "mu2").start] = QInt(2)
    /\ out.result[ParEntry(config, "mu1").start] = QInt(1)
    /\ ParEntry(config, "statistical_error").start = 3

\* two finished calls of the same operation with equal parameter vectors
SameCall(v, w) ==
    /\ workers[v].pc = "done"
    /\ workers[w].pc = "done"
    /\ workers[v].op = workers[w].op
    /\ workers[v].pars = workers[w].pars

C15_BuildValidates ==
    out.op # "none" =>
        /\ spec \in BrokenSpecs =>
              /\ config = NoModel
              /\ out.op = "build"
              /\ out.result[1] = "error"
              /\ parameters = <<>>
        /\ \A sp \in CallSpecs :
              /\ spec \in NameClashSpecs(sp) => out.result = <<"error", "name reuse">>
              /\ spec \in LengthMismatchSpecs(sp) => out.result = <<"error", "length mismatch">>
              /\ spec \in MissingFieldSpecs(sp) => out.result = <<"error", "missing field">>
        /\ spec \in CallSpecs => config = Model(spec)

C15_Witness ==
    /\ out = [op |-> "build", result |-> <<"error", "name reuse">>]
    /\ \E p \in ModifierPaths(spec) :
          /\ TheModifierAt(spec, p).type = "shapesys"
          /\ \E q \in ModifierPaths(spec) :
                /\ TheModifierAt(spec, q).type = "normfactor"
                /\ TheModifierAt(spec, q).name = TheModifierAt(spec, p).name

\* the bins whose expected yield is not positive although events were observed
InfeasibleBins ==
    LET lam == ExpectedActualdata(spec, config, parameters)
    IN  {b \in 1..Len(lam) : QLe(lam[b], QInt(0)) /\ QLt(QInt(0), observed[b])}

\* C16: logpdf at an infeasible parameter point (some bin with expected
\* yield <= 0 while its observed count is > 0) returns minus infinity, and
\* never a finite value.
C16_InfeasibleIsMinusInfinity ==
    (out.op = "logpdf" /\ InfeasibleBins # {}) => out.result = <<"-inf">>

\* C16, what the evaluation gives instead: log of a negative rate is not a
\* number, so a bin with a negative expected yield and a positive count makes
\* the result nan, not minus infinity
C16_NegativeYieldGivesNan ==
    /\ spec = SpecCorr
    /\ out = [op |-> "logpdf", result |-> <<"nan">>]
    /\ ParValue(config, parameters, "alpha", 1) = QInt(-2)
    /\ 5 \in InfeasibleBins
    /\ ExpectedActualdata(spec, config, parameters)[5] = Q(-6, 5)

\* C17 as stated: for hist1, hist2 and data of the notebook the fit of the
\* two-normfactor model within [0, 10] returns mu1 and mu2 both less than 1.
C17_BothBelowOne ==
    out.op = "fit" =>
        /\ QLt(QAdd(out.result[1], Q(1, Resolution)), QInt(1))
        /\ QLt(QAdd(out.result[2], Q(1, Resolution)), QInt(1))

\* C17, amended: the fit returns mu1 and mu2 both greater than 1, mu1 between
\* 3/2 and 5/2 and mu2 between 1 and 3/2, from wherever in [0, 10] x [0, 10]
\* the minimiser starts.
C17_BothAboveOne ==
    out.op = "fit" =>
        /\ QLt(Q(3, 2), out.result[1])
        /\ QLt(QAdd(out.result[1], Q(1, Resolution)), Q(5, 2))
        /\ QLt(QInt(1), out.result[2])
        /\ QLt(QAdd(out.result[2], Q(1, Resolution)), Q(3, 2))

C17_Witness ==
    /\ out.op = "fit"
    /\ spec = SpecTwoNorm
    /\ observed = data
    /\ out.result = <<Q(19, 10), Q(12, 10)>>

C21_CLsDecreasesInMu ==
    (hypo # NoTest /\ hypo.kind = "scan") =>
        \A i, j \in 1..Len(hypo.results) :
            i < j =>
                /\ QLt(hypo.results[i].mu, hypo.results[j].mu)
                /\ hypo.results[i].CLs <= hypo.results[j].CLs
                /\ 1 < i => QLe(hypo.results[i].tails.sb, hypo.results[j].tails.sb)
                /\ 1 < i => QLe(hypo.results[j].tails.b, hypo.results[i].tails.b)

C21_Witness ==
    /\ hypo # NoTest
    /\ hypo.kind = "scan"
    /\ QLt(QInt(0), SignalYield(spec))
    /\ QLt(QInt(0), hypo.muhat)
    /\ Len(hypo.results) = Len(MuScanPoints)
    /\ \E i \in 1..(Len(hypo.results) - 1) :
          hypo.results[i].CLs < hypo.results[i + 1].CLs

\* C22: hypotest with return_expected_set=True returns the observed CLs
\* and exactly five expected CLs, the k-th one for the band at k - 3 sigma
\* (-2, -1, 0, 1, 2 in that order); when the data are [b] + auxdata the
\* observed CLs equals the third, median, expected value.
C22_ExpectedSet ==
    (hypo # NoTest /\ hypo.kind = "scan") =>
        \A i \in 1..Len(hypo.results) :
            LET r == hypo.results[i]
            IN  /\ Len(r.expected) = 5
                /\ \A k \in 1..5 :
                      /\ r.expected_tails[k].b = QInt(3 - k)
                      /\ r.expected[k] = NegLogCLs(r.expected_tails[k])
                /\ observed[1] = BackgroundYield(spec) =>
                      /\ r.CLs = r.expected[3]
                      /\ r.tails = r.expected_tails[3]

C22_Witness ==
    /\ hypo # NoTest
    /\ hypo.kind = "scan"
    /\ hypo.test_stat = "qtilde"
    /\ spec = SpecCutCount
    /\ observed[1] = QInt(b_events)
    /\ \E i \in 1..Len(hypo.results) :
          /\ hypo.results[i].mu = QInt(1)
          /\ hypo.results[i].CLs = hypo.results[i].expected[3]
          /\ hypo.results[i].CLs > 0
          /\ hypo.results[i].expected[1] # hypo.results[i].expected[3]

\* C23: the upper limit is the mu at which CLs crosses 0.05 along the
\* scan: every scanned mu at or above the upper end of the crossing has
\* CLs < 0.05 and every scanned mu at or below its lower end has
\* CLs >= 0.05, for the observed and for each expected limit; for s = 7,
\* b = 5, delta_b = 2 with the background as data the expected (median)
\* limit lies between 3/4 and 1: with a width of 1/2 the crossing is
\* there, and the profile likelihood of the model has sqrt(q_A) >= 2 at
\* mu = 1, excluded, and sqrt(q_A) <= 7/4 at mu = 3/4, not excluded.
C23_UpperLimitCrossing ==
    (hypo # NoTest /\ hypo.kind = "scan" /\ hypo.exp_limits # <<>>) =>
        /\ \A i \in 1..Len(hypo.results) :
              LET r == hypo.results[i]
              IN  /\ (hypo.obs_limit.found /\ QLe(hypo.obs_limit.hi, r.mu)) => Excluded(r.CLs)
                  /\ QLe(r.mu, hypo.obs_limit.lo) => ~Excluded(r.CLs)
                  /\ \A k \in 1..5 :
                        /\ (hypo.exp_limits[k].found /\ QLe(hypo.exp_limits[k].hi, r.mu))
                              => Excluded(r.expected[k])
                        /\ QLe(r.mu, hypo.exp_limits[k].lo) => ~Excluded(r.expected[k])
        /\ (spec = SpecCutCount /\ observed[1] = QInt(b_events) /\ hypo.sigma = Q(1, 2)) =>
              /\ hypo.exp_limits[3] = [found |-> TRUE, lo |-> Q(3, 4), hi |-> QInt(1)]
              /\ hypo.obs_limit = hypo.exp_limits[3]
              /\ QLe(QPow(SqrtAsimov(QInt(1), hypo.sigma), 2),
                     AsimovStatistic(spec, QInt(1)).lo)
              /\ Excluded(NegLogCLs([sb |-> SqrtAsimov(QInt(1), hypo.sigma), b |-> QInt(0)]))
              /\ QLe(AsimovStatistic(spec, Q(3, 4)).up, QPow(Q(7, 4), 2))
              /\ ~Excluded(NegLogCLs([sb |-> Q(7, 4), b |-> QInt(0)]))

C23_Witness ==
    /\ hypo # NoTest
    /\ hypo.kind = "scan"
    /\ hypo.test_stat = "qtilde"
    /\ spec = SpecCutCount
    /\ observed[1] = QInt(b_events)
    /\ hypo.sigma = Q(1, 2)
    /\ hypo.exp_limits # <<>>
    /\ hypo.exp_limits[3].found
    /\ hypo.exp_limits[3].hi = QInt(1)
    /\ hypo.exp_limits[1].hi # hypo.exp_limits[5].hi

C30_BandsNested ==
    (hypo # NoTest /\ hypo.kind = "scan") =>
        /\ Len(hypo.results) <= Len(MuScanPoints)
        /\ \A i \in 1..Len(hypo.results) :
              LET e == hypo.results[i].expected
              IN  /\ hypo.results[i].mu = MuScanPoints[i]
                  /\ Len(e) = 5
                  /\ \A k \in 1..4 : e[k] >= e[k + 1]
                  /\ QLt(QInt(0), hypo.results[i].mu) =>
                        \A k \in 1..4 : e[k] > e[k + 1]
        /\ hypo.exp_limits # <<>> => Len(hypo.results) = Len(MuScanPoints)

C30_Witness ==
    /\ hypo # NoTest
    /\ hypo.kind = "scan"
    /\ spec = SpecCutCount
    /\ Len(hypo.results) = Len(MuScanPoints)
    /\ \E i \in 1..Len(hypo.results) :
          LET e == hypo.results[i].expected
          IN  e[1] > e[2] /\ e[2] > e[3] /\ e[3] > e[4] /\ e[4] > e[5]

\* C24: a model rebuilt from the JSON document of a built model's
\* specification is observably the same model: the same par_names in the
\* same order, the same suggested initial values and the same
\* expected_data at the parameter vector in use, whatever that vector is
\* and whether or not the keys are written sorted.
C24_RoundTrip ==
    out.op = "rebuilt" =>
        /\ ParNames(config.paramsets) = out.result.par_names
        /\ SuggestedInit(config.paramsets) = out.result.suggested_init
        /\ ExpectedData(spec, config, parameters) = out.result.expected_data

C24_Witness ==
    /\ out.op = "rebuilt"
    /\ spec = SpecCorr
    /\ parameters # SuggestedInit(config.paramsets)
    /\ Len(out.result.par_names) = 2
    /\ ExpectedData(spec, config, parameters) = out.result.expected_data

\* C25: a NormPlusShape systematic with a symmetrised Down variation gives
\* a normsys with hi = sum(Up) / sum(Nominal) and
\* lo = (2 sum(Nominal) - sum(Up)) / sum(Nominal) and a histosys of the
\* same name with hi_data = Up / hi and lo_data = 2 Nominal - Up / hi in
\* every bin; hence hi + lo = 2, hi_data + lo_data = 2 Nominal,
\* sum(hi_data) = sum(Nominal) and hi * hi_data = Up.
C25_NormPlusShape ==
    (tables.kind = "b2kpi" /\ tables.built # <<>>) =>
        LET sam == tables.built[1].samples[1]
            nominal == sam.data
            up == tables.tracking_modified
            normsys == sam.modifiers[3]
            histosys == sam.modifiers[4]
            hi == normsys.hi[1]
            lo == normsys.lo[1]
        IN  /\ normsys.type = "normsys" /\ histosys.type = "histosys"
            /\ normsys.name = histosys.name
            /\ nominal = tables.tracking_nominal
            /\ hi = QDiv(QSum(up), QSum(nominal))
            /\ lo = QDiv(QSub(QMul(QInt(2), QSum(nominal)), QSum(up)), QSum(nominal))
            /\ QAdd(hi, lo) = QInt(2)
            /\ \A i \in 1..Len(nominal) :
                  /\ histosys.hi[i] = QDiv(up[i], hi)
                  /\ histosys.lo[i] = QSub(QMul(QInt(2), nominal[i]), QDiv(up[i], hi))
                  /\ QAdd(histosys.hi[i], histosys.lo[i]) = QMul(QInt(2), nominal[i])
                  /\ QMul(hi, histosys.hi[i]) = up[i]
            /\ QSum(histosys.hi) = QSum(nominal)
            /\ spec[1].samples[1].modifiers[3] = normsys
            /\ spec[1].samples[1].modifiers[4] = histosys

C25_Witness ==
    /\ tables.kind = "b2kpi"
    /\ tables.built # <<>>
    /\ tables.tracking_nominal = <<QInt(4), QInt(6)>>
    /\ tables.tracking_modified = <<QInt(12), QInt(9)>>
    /\ spec[1].samples[1].modifiers[3].hi = <<Q(21, 10)>>
    /\ spec[1].samples[1].modifiers[3].lo = <<Q(-1, 10)>>
    /\ spec[1].samples[1].modifiers[4].hi # tables.tracking_modified

\* C26: the PID loop appends, for every row of pid_sys and every sample of
\* channel 0, exactly one modifier: a staterror named pid_sys_u for type
\* 'u', otherwise a histosys named pid_sys_<type> with
\* hi_data = yields (1 + variation) and lo_data = yields (1 - variation).
\* So each sample gains one modifier per row, in row order, all samples
\* carry the same pid_sys_* names, and the nominal data and the modifiers
\* that were there before are unchanged.
C26_PidLoop ==
    (tables.kind = "b2kpi" /\ tables.row > 0) =>
        \A k \in 1..Len(spec[1].samples) :
            LET sam == spec[1].samples[k]
                old == tables.built[1].samples[k]
                prior == Len(old.modifiers)
                \* the rows already applied to sample k
                rows == IF k < tables.sam THEN tables.row ELSE tables.row - 1
            IN  /\ sam.name = old.name
                /\ sam.data = old.data
                /\ Len(sam.modifiers) = prior + rows
                /\ SubSeq(sam.modifiers, 1, prior) = old.modifiers
                /\ \A r \in 1..rows :
                      LET var == tables.pid_sys[r]
                          mod == sam.modifiers[prior + r]
                          variation == IF k = 1 THEN var.signal ELSE var.qqbar
                      IN  /\ mod.name = "pid_sys_" \o var.type
                          /\ mod.name = spec[1].samples[1].modifiers[
                                           Len(tables.built[1].samples[1].modifiers) + r].name
                          /\ IF var.type = "u"
                             THEN /\ mod.type = "staterror"
                                  /\ mod.data = AbsUnc(variation)
                             ELSE /\ mod.type = "histosys"
                                  /\ \A i \in 1..Len(sam.data) :
                                        /\ mod.hi[i] = QMul(sam.data[i], QAdd(QInt(1), variation[i]))
                                        /\ mod.lo[i] = QMul(sam.data[i], QSub(QInt(1), variation[i]))
                /\ tables.row > Len(tables.pid_sys) => rows = Len(tables.pid_sys)

C26_Witness ==
    /\ tables.kind = "b2kpi"
    /\ Len(tables.pid_sys) = 2
    /\ tables.row > Len(tables.pid_sys)
    /\ tables.pid_sys[1].type = "u"
    /\ tables.pid_sys[2].type = "c1"
    /\ Len(spec[1].samples[1].modifiers) = 6
    /\ Len(spec[1].samples[2].modifiers) = 4
    /\ spec[1].samples[2].modifiers[4].name = "pid_sys_c1"

\* C27: in each interactive plot every slider writes the parameter it is
\* labelled with: the rendered parameters hold each slider's value at the
\* position the model gives that parameter, gamma{i} at component i of the
\* ten-entry gamma set, no two sliders share a position (no gamma slider
\* of the staterror widget lands on mu1 or mu2), and every other position
\* keeps its suggested initial value
C27_SlidersHitTheirParameters ==
    widgets.kind \in WidgetKinds =>
        LET keys == WidgetSliders(widgets.kind)
            Slot(n) == SliderIndex(widgets.kind, config, keys[n]) + 1
            Labelled(n) == SliderParameter(widgets.kind, keys[n])
        IN  /\ \A n \in 1..Len(keys) :
                  /\ Slot(n) \in 1..config.npars
                  /\ Slot(n) = ParEntry(config, Labelled(n).name).start + Labelled(n).component - 1
                  /\ Slot(n) <= ParEntry(config, Labelled(n).name).stop
                  /\ parameters[Slot(n)] = widgets.values[n]
                  /\ ParValue(config, parameters, Labelled(n).name, Labelled(n).component)
                         = widgets.values[n]
                  /\ \A m \in 1..Len(keys) : m # n => Slot(m) # Slot(n)
            /\ \A q \in 1..config.npars :
                  (\A n \in 1..Len(keys) : Slot(n) # q) =>
                      parameters[q] = SuggestedInit(config.paramsets)[q]
            /\ Len(parameters) = config.npars

\* the staterror plot is rendered after the user moved mu2 and the first gamma
C27_Witness ==
    /\ widgets.kind = "stat"
    /\ widgets.pc = 0
    /\ widgets.values[2] = QInt(10)
    /\ widgets.values[3] = QInt(2)
    /\ ParValue(config, parameters, "mu2", 1) = QInt(10)
    /\ ParValue(config, parameters, "statistical_error", 1) = QInt(2)

====
